---------------------------- MODULE Spec2Model ----------------------------
(***************************************************************************)
(* STK500v2 bootloader of Generation_7_Electronics                         *)
(* (arduino support/stk500v2bootloader/stk500boot.c), built for the        *)
(* ATmega644: 16-bit address_t (no RAMPZ), 256-byte flash pages,           *)
(* ALWAYS_WAIT_FOR_PROGRAMMER and ENABLE_LEAVE_BOOTLADER defined,          *)
(* REMOVE_PROGRAM_LOCK_BIT_SUPPORT defined, CMD_SPI_MULTI compiled in.     *)
(*                                                                         *)
(* The locals of main() are the program state, the UART is a queue of      *)
(* bytes in flight towards the bootloader plus a record of what was sent   *)
(* back, flash / SPM page buffer / EEPROM are the memory the boot.h and    *)
(* EEPROM register accesses act on.                                        *)
(***************************************************************************)
EXTENDS Integers, Sequences, FiniteSets, TLC

(***************************************************************************)
(* Bounds of the model (not program constants).                            *)
(***************************************************************************)
\* bytes the host may send one at a time in the byte-level specification
MaxRx == 7
\* frames the host may send in the frame-level specification
MaxFrames == 4
\* frames the host may send in the sequence-number specification
MaxSeqFrames == 4
\* frames of the in-sequence session (long enough to pass 255 -> 0)
MaxWrapFrames == 258
\* receive waits that may expire in one run
MaxTimeouts == 1
\* frames the host may send in the command-level specification
MaxCmdFrames == 3
\* frames or parts of frames the host sends before it falls silent
MaxLiveFrames == 2
\* index into msgBuffer up to which a program or read loop is followed
MaxIndex == 290
\* frames of a query session
MaxQueryFrames == 2
\* long frames the host may send
MaxLongFrames == 2
\* frames a host that does not wait for replies may send
MaxAheadFrames == 3
\* frames of a programming session with sizes of every kind
MaxSizeFrames == 3
\* long read-flash frames the host may send
MaxReadFrames == 2

(***************************************************************************)
(* Protocol constants of command.h (STK500v2, Atmel AVR068).               *)
(***************************************************************************)
MESSAGE_START == 27
TOKEN == 14
CMD_SIGN_ON == 1
CMD_SET_PARAMETER == 2
CMD_GET_PARAMETER == 3
CMD_LOAD_ADDRESS == 6
CMD_ENTER_PROGMODE_ISP == 16
CMD_LEAVE_PROGMODE_ISP == 17
CMD_CHIP_ERASE_ISP == 18
CMD_PROGRAM_FLASH_ISP == 19
CMD_READ_FLASH_ISP == 20
CMD_PROGRAM_EEPROM_ISP == 21
CMD_READ_EEPROM_ISP == 22
CMD_READ_FUSE_ISP == 24
CMD_READ_LOCK_ISP == 26
CMD_READ_SIGNATURE_ISP == 27
CMD_SPI_MULTI == 29
STATUS_CMD_OK == 0
STATUS_CMD_FAILED == 192
PARAM_BUILD_NUMBER_LOW == 128
PARAM_BUILD_NUMBER_HIGH == 129
PARAM_HW_VER == 144
PARAM_SW_MAJOR == 145
PARAM_SW_MINOR == 146

(***************************************************************************)
(* Configuration constants of stk500boot.c.                                *)
(***************************************************************************)
CMD_PROGRAMMER_TIMEOUT == 47
CONFIG_PARAM_BUILD_NUMBER_LOW == 0
CONFIG_PARAM_BUILD_NUMBER_HIGH == 0
CONFIG_PARAM_HW_VER == 15
CONFIG_PARAM_SW_MAJOR == 2
CONFIG_PARAM_SW_MINOR == 10
\* SIGNATURE_BYTES 0x1E9609 (ATmega644)
SIGNATURE_BYTES == 2004489
\* unsigned char msgBuffer[285]
MsgBufferSize == 285
\* unsigned char holds 8 bits, unsigned int and address_t 16 bits
ByteMod == 256
WordMod == 65536

(***************************************************************************)
(* Build parameters of the ATmega644 target (Makefile, avr/io.h).          *)
(***************************************************************************)
\* BOOTLOADER_ADDRESS 0xF800 (byte address of the boot section)
BOOTLOADER_ADDRESS == 63488
APP_END == BOOTLOADER_ADDRESS - 1
\* SPM_PAGESIZE in bytes
SPM_PAGESIZE == 256
\* E2END + 1, the EEPROM address register holds 11 bits
EEPROM_SIZE == 2048
\* fuse and lock bytes read by boot_lock_fuse_bits_get
LOCK_BITS == 255
LOW_FUSE_BITS == 247
HIGH_FUSE_BITS == 220
EXTENDED_FUSE_BITS == 253

Byte == 0..(ByteMod - 1)

(***************************************************************************)
(* C operators on unsigned values.                                         *)
(***************************************************************************)
RECURSIVE BitXor(_, _)
BitXor(a, b) ==
    IF a = 0 THEN b
    ELSE IF b = 0 THEN a
    ELSE ((a + b) % 2) + 2 * BitXor(a \div 2, b \div 2)

RECURSIVE BitAnd(_, _)
BitAnd(a, b) ==
    IF a = 0 \/ b = 0 THEN 0
    ELSE ((a % 2) * (b % 2)) + 2 * BitAnd(a \div 2, b \div 2)

RECURSIVE BitOr(_, _)
BitOr(a, b) ==
    IF a = 0 THEN b
    ELSE IF b = 0 THEN a
    ELSE (IF (a % 2) + (b % 2) > 0 THEN 1 ELSE 0) + 2 * BitOr(a \div 2, b \div 2)

\* XOR of the bytes s[lo] .. s[hi], taken by halves (XOR is associative)
RECURSIVE XorRange(_, _, _)
XorRange(s, lo, hi) ==
    IF lo > hi THEN 0
    ELSE IF lo = hi THEN s[lo]
    ELSE LET mid == (lo + hi) \div 2
         IN BitXor(XorRange(s, lo, mid), XorRange(s, mid + 1, hi))

\* XOR of all bytes of a sequence, starting from 0
XorSeq(s) == XorRange(s, 1, Len(s))

ParseStates == {"ST_START", "ST_GET_SEQ_NUM", "ST_MSG_SIZE_1", "ST_MSG_SIZE_2",
                "ST_GET_TOKEN", "ST_GET_DATA", "ST_GET_CHECK", "ST_PROCESS"}

VARIABLES
    \* locals of main()
    address, msgParseState, i, checksum, seqNum, msgLength, msgBuffer, isLeave,
    \* locals of the program / read case blocks
    size, p, tempaddress,
    \* position in main(): "recv", "dispatch", "prog_flash", "prog_eeprom",
    \* "read_flash", "read_eeprom", "send", "done"
    pc,
    \* memory: flash bytes, SPM temporary page buffer, EEPROM bytes
    flash, pageBuf, eeprom,
    \* UART: bytes in flight to the bootloader, last reply frame sent
    rx, tx,
    \* history: bytes consumed for the frame being parsed, counters, SPM log,
    \* out-of-bounds accesses to msgBuffer, dispatched commands, host side
    frame, stages, nRx, nFrames, nReady, nReplies, answered, spmLog, oob, cmdLog,
    prevSeq, expSeq, lastReject, nTimeouts

locals == <<address, msgParseState, i, checksum, seqNum, msgLength, msgBuffer, isLeave>>
blockLocals == <<size, p, tempaddress>>
memory == <<flash, pageBuf, eeprom>>
history == <<frame, stages, nReady, nReplies, answered, spmLog, oob, cmdLog, prevSeq,
             expSeq, lastReject>>
stk500 == <<locals, blockLocals, pc, memory, rx, tx, history, nRx, nFrames, nTimeouts>>

VARIABLES
    \* USB adapter firmware: send/receive buffers and their fill levels
    tx_buf, rx_buf, txptr, rxptr, sendEmptyFrame,
    \* USB driver: requests of the host are refused; the packet handed to
    \* usbSetInterrupt() has not been collected by the host yet
    usbDisabled, usbTxPending,
    \* position in the main event loop: "poll", "host", "shift", "device"
    loopAt,
    \* history: the packet received last and the number of packets received,
    \* the bytes exchanged over SPI for the packet shifted last, the packet
    \* handed to the driver last and the length of the one before it,
    \* control requests seen
    outLast, nOut, spiLog, inLast, inPrev, nSetup

adapter == <<tx_buf, rx_buf, txptr, rxptr, sendEmptyFrame, usbDisabled, usbTxPending,
             loopAt, outLast, nOut, spiLog, inLast, inPrev, nSetup>>

VARIABLES
    \* MCP2200 forwarder: the interface and buffer globals (0: NULL), the PTY
    gUsbInterruptInterface, gUsbBulkInterface, gReadBuffer, gWriteBuffer, gPtyPipe,
    \* I/O Kit and heap: asynchronous reads not yet handed to read_completion(),
    \* interfaces released, buffers freed, devices plugged in
    asyncReads, released, freed, present,
    \* position in main(): "start", "pty", "loop", "exit", "crashed"
    runAt,
    \* history: reads armed, devices seen, packets arrived, chunks written to
    \* the PTY, a released interface was used, how the last device_added()
    \* ended, whether the last read_completion() armed a read
    nRead, nPlug, nData, ptyLog, usedReleased, gaveUp, lastCompletion

forwarder == <<gUsbInterruptInterface, gUsbBulkInterface, gReadBuffer, gWriteBuffer,
               gPtyPipe, asyncReads, released, freed, present, runAt, nRead, nPlug, nData,
               ptyLog, usedReleased, gaveUp, lastCompletion>>

vars == <<stk500, adapter, forwarder>>

\* what the steps of the bootloader leave alone
otherPrograms == <<adapter, forwarder>>

(***************************************************************************)
(* USB adapter firmware (CDC-SPI): state at the start of the main event     *)
(* loop.                                                                    *)
(***************************************************************************)
HW_CDC_BULK_OUT_SIZE == 64
HW_CDC_BULK_IN_SIZE == 64

AdapterInit ==
    /\ tx_buf = [k \in 0..(HW_CDC_BULK_IN_SIZE - 1) |-> 0]
    /\ rx_buf = [k \in 0..(HW_CDC_BULK_OUT_SIZE - 1) |-> 0]
    /\ txptr = 0 /\ rxptr = 0
    /\ sendEmptyFrame = 0
    /\ usbDisabled = FALSE
    /\ usbTxPending = FALSE
    /\ loopAt = "poll"
    /\ outLast = <<>> /\ nOut = 0
    /\ spiLog = [mosi |-> <<>>, miso |-> <<>>]
    /\ inLast = <<>> /\ inPrev = 0
    /\ nSetup = 0

(***************************************************************************)
(* MCP2200 forwarder: state at the start of main().                        *)
(***************************************************************************)
ForwarderInit ==
    /\ gUsbInterruptInterface = 0 /\ gUsbBulkInterface = 0
    /\ gReadBuffer = 0 /\ gWriteBuffer = 0
    /\ gPtyPipe = -1
    /\ asyncReads = {} /\ released = {} /\ freed = {} /\ present = {}
    /\ runAt = "start"
    /\ nRead = 0 /\ nPlug = 0 /\ nData = 0 /\ ptyLog = 0
    /\ usedReleased = FALSE
    /\ gaveUp = [dev |-> 0, why |-> "none"]
    /\ lastCompletion = [n |-> 0, result |-> "none", how |-> "none"]

(***************************************************************************)
(* Memory as the bootloader sees it.  flash and eeprom hold the locations  *)
(* changed since bootloader entry; every other location still has the      *)
(* content it had at entry.                                                *)
(***************************************************************************)
\* content of flash at bootloader entry (previous image)
OldFlashByte(a) == a % ByteMod
\* content of the EEPROM at bootloader entry
OldEepromByte(a) == (a + 128) % ByteMod

FlashByte(f, a) == IF a \in DOMAIN f THEN f[a] ELSE OldFlashByte(a)
EepromByte(e, a) == IF a \in DOMAIN e THEN e[a] ELSE OldEepromByte(a)

\* mutant: the page after the one the address lies in
PageBase_Next(a) == a - (a % SPM_PAGESIZE) + SPM_PAGESIZE

\* first byte address of the flash page a lies in
PageBase(a) == a - (a % SPM_PAGESIZE)
PageAddrs(a) == PageBase(a)..(PageBase(a) + SPM_PAGESIZE - 1)

\* a byte of msgBuffer; an index outside the array reads whatever lies
\* behind it, g
BufByte(buf, k, g) == IF k < MsgBufferSize THEN buf[k] ELSE g

\* bytes stack memory may hold where the program never wrote
StackFill == {0, 255}

\* what a store behind the end of msgBuffer can hit: nothing the program
\* reads again, or one of the other locals of main()
OobOutcomes == {"lost", "checksum", "seqNum", "msgLength", "address", "isLeave"}

Init ==
    /\ address = 0
    /\ msgParseState = "ST_START"
    /\ i = 0
    /\ checksum = 0
    /\ seqNum = 0
    /\ msgLength = 0
    /\ \E g \in StackFill : msgBuffer = [k \in 0..(MsgBufferSize - 1) |-> g]
    /\ isLeave = 0
    /\ size = 0 /\ p = 0 /\ tempaddress = 0
    /\ pc = "recv"
    /\ flash = <<>> /\ pageBuf = <<>> /\ eeprom = <<>>
    /\ rx = <<>> /\ tx = <<>>
    /\ frame = <<>> /\ stages = <<>>
    /\ nRx = 0 /\ nFrames = 0 /\ nTimeouts = 0 /\ nReady = 0 /\ nReplies = 0
    /\ answered = 0
    /\ spmLog = <<>>
    /\ oob = FALSE
    /\ cmdLog = <<>>
    /\ prevSeq = 0
    /\ expSeq = 0
    /\ lastReject = "none"
    /\ AdapterInit
    /\ ForwarderInit

(***************************************************************************)
(* The locals of main() as one record, so that the steps of main() are     *)
(* operators from locals to locals.                                        *)
(***************************************************************************)
Locals ==
    [address |-> address, st |-> msgParseState, i |-> i, checksum |-> checksum,
     seqNum |-> seqNum, msgLength |-> msgLength, buf |-> msgBuffer,
     isLeave |-> isLeave, oob |-> oob]

\* msgBuffer[k] = v.  A store behind the end of the array is undefined:
\* ub names what it hits.
Store(L, k, v, ub) ==
    IF k < MsgBufferSize THEN [L EXCEPT !.buf[k] = v]
    ELSE LET M == [L EXCEPT !.oob = TRUE] IN
         CASE ub = "checksum" -> [M EXCEPT !.checksum = v]
           [] ub = "seqNum" -> [M EXCEPT !.seqNum = v]
           [] ub = "msgLength" -> [M EXCEPT !.msgLength = v]
           [] ub = "address" -> [M EXCEPT !.address = v]
           [] ub = "isLeave" -> [M EXCEPT !.isLeave = v]
           [] OTHER -> M

\* the outcomes to consider for a store at index k
UbChoices(k) == IF k < MsgBufferSize THEN {"lost"} ELSE OobOutcomes

(***************************************************************************)
(* The receive state machine: one pass of the inner while loop of main()   *)
(* on the byte c returned by recchar().                                    *)
(***************************************************************************)
\* mutant: the restart number 1 is not accepted
SeqAccepted_NoRestart(c, sn) == c = sn

\* if ( (c == 1) || (c == seqNum) )
SeqAccepted(c, sn) == c = 1 \/ c = sn

\* mutant: the checksum byte is not compared
CheckOk_Any(c, cs) == TRUE

\* if ( c == checksum )
CheckOk(c, cs) == c = cs

\* mutant: the token byte is not compared
TokenOk_Any(c) == TRUE

\* if ( c == TOKEN )
TokenOk(c) == c = TOKEN

\* checksum ^= c
Fold(cs, c) == BitXor(cs, c)

\* mutant: the value recchar() returns for an expired wait is not looked for
TimedOut_Never(c) == FALSE

\* if ( c == CMD_PROGRAMMER_TIMEOUT ) in case ST_START
TimedOut(c) == c = CMD_PROGRAMMER_TIMEOUT

ParseStep(L, c, ub) ==
    CASE L.st = "ST_START" ->
            IF c = MESSAGE_START
            THEN [L EXCEPT !.st = "ST_GET_SEQ_NUM", !.checksum = BitXor(MESSAGE_START, 0)]
            ELSE IF TimedOut(c)
            THEN [L EXCEPT !.buf[0] = CMD_PROGRAMMER_TIMEOUT, !.st = "ST_PROCESS"]
            ELSE L
      [] L.st = "ST_GET_SEQ_NUM" ->
            IF SeqAccepted(c, L.seqNum)
            THEN [L EXCEPT !.seqNum = c, !.st = "ST_MSG_SIZE_1",
                           !.checksum = Fold(L.checksum, c)]
            ELSE [L EXCEPT !.st = "ST_START"]
      [] L.st = "ST_MSG_SIZE_1" ->
            [L EXCEPT !.msgLength = (c * 256) % WordMod, !.st = "ST_MSG_SIZE_2",
                      !.checksum = Fold(L.checksum, c)]
      [] L.st = "ST_MSG_SIZE_2" ->
            [L EXCEPT !.msgLength = BitOr(L.msgLength, c), !.st = "ST_GET_TOKEN",
                      !.checksum = Fold(L.checksum, c)]
      [] L.st = "ST_GET_TOKEN" ->
            IF TokenOk(c)
            THEN [L EXCEPT !.st = "ST_GET_DATA", !.checksum = Fold(L.checksum, c),
                           !.i = 0]
            ELSE [L EXCEPT !.st = "ST_START"]
      [] L.st = "ST_GET_DATA" ->
            LET M == Store(L, L.i, c, ub)
                n == (L.i + 1) % WordMod
            IN [M EXCEPT !.i = n, !.checksum = Fold(M.checksum, c),
                         !.st = IF n = M.msgLength THEN "ST_GET_CHECK" ELSE "ST_GET_DATA"]
      [] L.st = "ST_GET_CHECK" ->
            IF CheckOk(c, L.checksum)
            THEN [L EXCEPT !.st = "ST_PROCESS"]
            ELSE [L EXCEPT !.st = "ST_START"]
      [] OTHER -> L

\* the locals of main() take the values of record N
SetLocals(N) ==
    /\ address' = N.address
    /\ msgParseState' = N.st
    /\ i' = N.i
    /\ checksum' = N.checksum
    /\ seqNum' = N.seqNum
    /\ msgLength' = N.msgLength
    /\ msgBuffer' = N.buf
    /\ isLeave' = N.isLeave
    /\ oob' = N.oob

\* mutant: the receive loop ends before the checksum byte was compared
FrameReady_Early(st) == st \in {"ST_GET_CHECK", "ST_PROCESS"}

\* while ( msgParseState != ST_PROCESS ) ends
FrameReady(st) == st = "ST_PROCESS"

Parse(c, ub) ==
    LET N == ParseStep(Locals, c, ub) IN
    /\ pc = "recv"
    /\ SetLocals(N)
    /\ pc' = IF FrameReady(N.st) THEN "dispatch" ELSE "recv"
    \* history of the frame being parsed
    /\ frame' = IF N.st = "ST_START" THEN <<>>
                ELSE IF msgParseState = "ST_START" THEN <<c>>
                ELSE Append(frame, c)
    /\ stages' = IF N.st = "ST_START" THEN <<>>
                 ELSE IF msgParseState = "ST_START" THEN <<msgParseState, N.st>>
                 ELSE IF N.st = msgParseState THEN stages
                 ELSE Append(stages, N.st)
    /\ prevSeq' = IF msgParseState = "ST_START" THEN seqNum ELSE prevSeq
    /\ expSeq' = IF msgParseState = "ST_GET_SEQ_NUM" /\ N.st = "ST_MSG_SIZE_1" THEN c ELSE expSeq
    /\ lastReject' = IF msgParseState # "ST_START" /\ N.st = "ST_START"
                     THEN msgParseState ELSE lastReject
    /\ nReady' = IF N.st = "ST_PROCESS" THEN nReady + 1 ELSE nReady
    /\ UNCHANGED <<blockLocals, memory, tx, nReplies, answered, spmLog, cmdLog>>

\* recchar() returns the byte the UART received
RecvByte ==
    /\ rx # <<>>
    /\ \E ub \in UbChoices(i) : Parse(Head(rx), ub)
    /\ rx' = Tail(rx)
    /\ UNCHANGED <<nRx, nFrames, nTimeouts>>
    /\ UNCHANGED otherPrograms

\* recchar() gives up waiting, as often as the main loop waits
RecvExpire ==
    /\ rx = <<>>
    /\ \E ub \in UbChoices(i) : Parse(CMD_PROGRAMMER_TIMEOUT, ub)
    /\ UNCHANGED <<rx, nRx, nFrames, nTimeouts>>
    /\ UNCHANGED otherPrograms

\* recchar() gives up waiting and returns CMD_PROGRAMMER_TIMEOUT
RecvTimeout ==
    /\ rx = <<>>
    /\ nTimeouts < MaxTimeouts
    /\ \E ub \in UbChoices(i) : Parse(CMD_PROGRAMMER_TIMEOUT, ub)
    /\ nTimeouts' = nTimeouts + 1
    /\ UNCHANGED <<rx, nRx, nFrames>>
    /\ UNCHANGED otherPrograms

(***************************************************************************)
(* The command switch of main().                                           *)
(***************************************************************************)
\* mutant: an index behind the signature selects the high byte
Signature_Wraps(signatureIndex) ==
    IF signatureIndex = 1 THEN (SIGNATURE_BYTES \div 256) % 256
    ELSE IF signatureIndex = 2 THEN SIGNATURE_BYTES % 256
    ELSE (SIGNATURE_BYTES \div 65536) % 256

\* one byte of SIGNATURE_BYTES, selected as in CMD_READ_SIGNATURE_ISP
Signature(signatureIndex) ==
    IF signatureIndex = 0 THEN (SIGNATURE_BYTES \div 65536) % 256
    ELSE IF signatureIndex = 1 THEN (SIGNATURE_BYTES \div 256) % 256
    ELSE SIGNATURE_BYTES % 256

\* value reported by CMD_GET_PARAMETER
ParamValue(id) ==
    CASE id = PARAM_BUILD_NUMBER_LOW -> CONFIG_PARAM_BUILD_NUMBER_LOW
      [] id = PARAM_BUILD_NUMBER_HIGH -> CONFIG_PARAM_BUILD_NUMBER_HIGH
      [] id = PARAM_HW_VER -> CONFIG_PARAM_HW_VER
      [] id = PARAM_SW_MAJOR -> CONFIG_PARAM_SW_MAJOR
      [] id = PARAM_SW_MINOR -> CONFIG_PARAM_SW_MINOR
      [] OTHER -> 0

\* fuse byte selected as in CMD_READ_FUSE_ISP
FuseBits(b2, b3) ==
    IF b2 = 80
    THEN (IF b3 = 8 THEN EXTENDED_FUSE_BITS ELSE LOW_FUSE_BITS)
    ELSE HIGH_FUSE_BITS

\* mutant: the shifted value is not cut to the 16 bits of address_t
LoadAddress_Wide(b3, b4) == (b3 * 256 + b4) * 2

\* address = ( ((msgBuffer[3])<<8)|(msgBuffer[4]) )<<1, kept in 16 bits
LoadAddress(b3, b4) == ((b3 * 256 + b4) * 2) % WordMod

\* size = (((unsigned int)msgBuffer[1])<<8) | msgBuffer[2]
SizeOperand(b1, b2) == b1 * 256 + b2

\* mutant: no bootloader protection
InAppSection_Always(a) == TRUE

\* mutant: the first page of the boot section passes
InAppSection_Inclusive(a) == a <= BOOTLOADER_ADDRESS

\* if ( address < APP_END ): rewrite only in main section
InAppSection(a) == a < APP_END

\* msgBuffer[from ..] = the bytes of sequence vs
RECURSIVE PutBytes(_, _, _)
PutBytes(buf, from, vs) ==
    IF vs = <<>> THEN buf
    ELSE PutBytes([buf EXCEPT ![from] = Head(vs)], from + 1, Tail(vs))

\* the short answer of a command: msgLength = len, msgBuffer[1 ..] = vs
Answer(L, len, vs) == [L EXCEPT !.msgLength = len, !.buf = PutBytes(L.buf, 1, vs)]

\* mutant: chip erase puts the address back to 0
ChipErase_ClearsAddress(L) == [Answer(L, 2, <<STATUS_CMD_OK>>) EXCEPT !.address = 0]

\* case CMD_CHIP_ERASE_ISP: only the answer is set
ChipErase(L) == Answer(L, 2, <<STATUS_CMD_OK>>)

\* mutant: isLeave = 1 stands below the three case labels
LeaveFlag_AllThree(cmd, leave) == 1

\* case CMD_LEAVE_PROGMODE_ISP: isLeave = 1, then falls through to the answer
\* it shares with CMD_ENTER_PROGMODE_ISP and CMD_SET_PARAMETER
LeaveFlag(cmd, leave) == IF cmd = CMD_LEAVE_PROGMODE_ISP THEN 1 ELSE leave

\* mutant: the signature is answered to every instruction
SpiAnswer_AnyInstruction(b4, b6) == Signature(b6)

\* answerByte of CMD_SPI_MULTI: only Read Signature Bytes (0x30) implemented,
\* dummy value 0 for other instructions
SpiAnswer(b4, b6) == IF b4 = 48 THEN Signature(b6) ELSE 0

\* mutant: the length byte of the identification string is left out
SignOn_NoCount(L) ==
    Answer(L, 10, <<STATUS_CMD_OK, 65, 86, 82, 73, 83, 80, 95, 50>>)

\* case CMD_SIGN_ON: status, 8, 'A' 'V' 'R' 'I' 'S' 'P' '_' '2'
SignOn(L) ==
    Answer(L, 11, <<STATUS_CMD_OK, 8, 65, 86, 82, 73, 83, 80, 95, 50>>)

\* the cases of the switch that run straight through
Handle(L) ==
    LET b == L.buf
        cmd == b[0]
    IN
    CASE cmd = CMD_SPI_MULTI ->
            LET answerByte == SpiAnswer(b[4], b[6])
            IN Answer(L, 7, <<STATUS_CMD_OK, 0, b[4], b[5], answerByte, STATUS_CMD_OK>>)
      [] cmd = CMD_SIGN_ON ->
            SignOn(L)
      [] cmd = CMD_GET_PARAMETER ->
            Answer(L, 3, <<STATUS_CMD_OK, ParamValue(b[1])>>)
      [] cmd \in {CMD_LEAVE_PROGMODE_ISP, CMD_ENTER_PROGMODE_ISP, CMD_SET_PARAMETER} ->
            [Answer(L, 2, <<STATUS_CMD_OK>>) EXCEPT !.isLeave = LeaveFlag(cmd, L.isLeave)]
      [] cmd = CMD_READ_SIGNATURE_ISP ->
            Answer(L, 4, <<STATUS_CMD_OK, Signature(b[4]), STATUS_CMD_OK>>)
      [] cmd = CMD_READ_LOCK_ISP ->
            Answer(L, 4, <<STATUS_CMD_OK, LOCK_BITS, STATUS_CMD_OK>>)
      [] cmd = CMD_READ_FUSE_ISP ->
            Answer(L, 4, <<STATUS_CMD_OK, FuseBits(b[2], b[3]), STATUS_CMD_OK>>)
      [] cmd = CMD_CHIP_ERASE_ISP ->
            ChipErase(L)
      [] cmd = CMD_LOAD_ADDRESS ->
            [Answer(L, 2, <<STATUS_CMD_OK>>) EXCEPT !.address = LoadAddress(b[3], b[4])]
      [] cmd = CMD_PROGRAM_FLASH_ISP ->
            \* the start address is outside the application section
            Answer(L, 2, <<STATUS_CMD_OK>>)
      [] cmd = CMD_PROGRAMMER_TIMEOUT ->
            [L EXCEPT !.isLeave = 2]
      [] OTHER ->
            Answer(L, 2, <<STATUS_CMD_FAILED>>)

\* boot_page_erase(a): every byte of the page of a becomes 0xFF
PageErase(f, a) ==
    [x \in (DOMAIN f) \cup PageAddrs(a) |-> IF x \in PageAddrs(a) THEN 255 ELSE f[x]]

\* the byte the temporary page buffer holds for flash location x
PageBufByte(pb, x) ==
    LET off == (x % SPM_PAGESIZE) - (x % 2) IN
    IF off \in DOMAIN pb
    THEN (IF x % 2 = 0 THEN pb[off] % 256 ELSE pb[off] \div 256)
    ELSE 255

\* boot_page_fill(a, data): word data goes to the buffer word a selects
\* within the page; a word loaded twice keeps the first value or takes the
\* AND of both (again)
PageFill(pb, a, data, again) ==
    LET off == (a % SPM_PAGESIZE) - (a % 2) IN
    IF off \in DOMAIN pb
    THEN (IF again = "and" THEN [pb EXCEPT ![off] = BitAnd(pb[off], data)] ELSE pb)
    ELSE (off :> data) @@ pb

\* boot_page_write(a): the page of a is programmed from the page buffer
PageWrite(f, pb, a) ==
    [x \in (DOMAIN f) \cup PageAddrs(a) |->
        IF x \in PageAddrs(a) THEN BitAnd(FlashByte(f, x), PageBufByte(pb, x)) ELSE f[x]]

\* entry of the dispatched command in the command history
LogEntry(L) ==
    [cmd |-> L.buf[0], addr |-> L.address,
     arg |-> IF L.buf[0] = CMD_LOAD_ADDRESS THEN L.buf[3] * 256 + L.buf[4]
             ELSE SizeOperand(L.buf[1], L.buf[2]),
     data |-> IF L.buf[0] \in {CMD_PROGRAM_FLASH_ISP, CMD_PROGRAM_EEPROM_ISP}
              THEN [k \in 1..(IF Len(frame) >= 16 THEN Len(frame) - 16 ELSE 0) |-> frame[15 + k]]
              ELSE <<>>,
     seq |-> L.seqNum]

KeepLast(sq, n) == IF Len(sq) > n THEN SubSeq(sq, Len(sq) - n + 1, Len(sq)) ELSE sq

LoopCommands == {CMD_PROGRAM_EEPROM_ISP, CMD_READ_FLASH_ISP, CMD_READ_EEPROM_ISP}

\* switch (msgBuffer[0]) up to the answer or up to the do-while loop of the
\* program and read commands
Dispatch ==
    /\ UNCHANGED otherPrograms
    /\ LET L == Locals
           b == msgBuffer
           cmd == b[0]
           programs == cmd = CMD_PROGRAM_FLASH_ISP /\ InAppSection(address)
           loops == programs \/ cmd \in LoopCommands
           reads == cmd \in {CMD_READ_FLASH_ISP, CMD_READ_EEPROM_ISP}
           sz == SizeOperand(b[1], b[2])
       IN
       /\ pc = "dispatch"
       /\ IF loops
          THEN /\ size' = sz
               /\ p' = IF reads THEN 2 ELSE 10
               /\ tempaddress' = address
               /\ SetLocals(IF reads
                            THEN [L EXCEPT !.msgLength = (sz + 3) % WordMod,
                                           !.buf[1] = STATUS_CMD_OK]
                            ELSE L)
               /\ flash' = IF programs THEN PageErase(flash, address) ELSE flash
               /\ spmLog' = IF programs THEN <<<<"erase", PageBase(address)>>>> ELSE <<>>
               /\ pc' = CASE cmd = CMD_PROGRAM_FLASH_ISP -> "prog_flash"
                          [] cmd = CMD_PROGRAM_EEPROM_ISP -> "prog_eeprom"
                          [] cmd = CMD_READ_FLASH_ISP -> "read_flash"
                          [] OTHER -> "read_eeprom"
          ELSE /\ SetLocals(Handle(L))
               /\ UNCHANGED <<blockLocals, flash>>
               /\ spmLog' = <<>>
               /\ pc' = "send"
       /\ answered' = IF Len(frame) >= 2 THEN frame[2] ELSE seqNum
       /\ cmdLog' = KeepLast(Append(cmdLog, LogEntry(L)), 4)
       /\ UNCHANGED <<pageBuf, eeprom, rx, tx, frame, stages, nReady, nReplies, prevSeq,
                      expSeq, lastReject, nRx, nFrames, nTimeouts>>

(***************************************************************************)
(* The do-while loops of the program and read commands, one pass each.     *)
(* g is the byte a read behind the end of msgBuffer yields, ub what a      *)
(* store behind its end hits, again what a second load of a page buffer    *)
(* word does.                                                              *)
(***************************************************************************)
\* size -= n on an unsigned int
SizeMinus(sz, n) == (sz - n) % WordMod

\* mutant: the bytes of the word are swapped
DataWord_Swapped(lowByte, highByte) == lowByte * 256 + highByte

\* data = (highByte << 8) | lowByte
DataWord(lowByte, highByte) == highByte * 256 + lowByte

\* Write FLASH: do { ... } while(size), then boot_page_write(tempaddress)
ProgramFlashStep ==
    /\ UNCHANGED otherPrograms
    /\ \E g \in StackFill, again \in {"keep", "and"} :
       LET lowByte == BufByte(msgBuffer, p, g)
           highByte == BufByte(msgBuffer, p + 1, g)
           data == DataWord(lowByte, highByte)
           pb == PageFill(pageBuf, address, data, again)
           left == SizeMinus(size, 2)
           L == [Locals EXCEPT !.address = (address + 2) % WordMod,
                               !.oob = (oob \/ p + 1 >= MsgBufferSize)]
       IN
       /\ pc = "prog_flash"
       /\ p < MaxIndex
       /\ p' = p + 2
       /\ size' = left
       /\ IF left # 0
          THEN /\ SetLocals(L)
               /\ pageBuf' = pb
               /\ spmLog' = Append(spmLog, <<"fill", address>>)
               /\ UNCHANGED <<flash, pc>>
          ELSE /\ SetLocals(Answer(L, 2, <<STATUS_CMD_OK>>))
               /\ flash' = PageWrite(flash, pb, tempaddress)
               /\ pageBuf' = <<>>
               /\ spmLog' = spmLog \o << <<"fill", address>>, <<"write", PageBase(tempaddress)>> >>
               /\ pc' = "send"
       /\ UNCHANGED <<tempaddress, eeprom, rx, tx, frame, stages, nReady, nReplies,
                      answered, cmdLog, prevSeq, expSeq, lastReject,
                      nRx, nFrames, nTimeouts>>

\* write EEPROM: do { ... } while(size)
ProgramEepromStep ==
    /\ UNCHANGED otherPrograms
    /\ \E g \in StackFill :
       LET left == SizeMinus(size, 1)
           L == [Locals EXCEPT !.address = (address + 1) % WordMod,
                               !.oob = (oob \/ p >= MsgBufferSize)]
       IN
       /\ pc = "prog_eeprom"
       /\ p < MaxIndex
       /\ eeprom' = ((address % EEPROM_SIZE) :> BufByte(msgBuffer, p, g)) @@ eeprom
       /\ p' = p + 1
       /\ size' = left
       /\ IF left # 0
          THEN SetLocals(L) /\ UNCHANGED pc
          ELSE SetLocals(Answer(L, 2, <<STATUS_CMD_OK>>)) /\ pc' = "send"
       /\ UNCHANGED <<tempaddress, flash, pageBuf, rx, tx, frame, stages, nReady, nReplies,
                      answered, spmLog, cmdLog, prevSeq, expSeq, lastReject,
                      nRx, nFrames, nTimeouts>>

\* Read FLASH: do { ... } while (size), then the trailing STATUS_CMD_OK
ReadFlashStep ==
    /\ UNCHANGED otherPrograms
    /\ \E ub \in UbChoices(p + 2) :
       LET lsb == FlashByte(flash, address)
           msb == FlashByte(flash, (address + 1) % WordMod)
           L1 == Store(Store(Locals, p, lsb, ub), p + 1, msb, ub)
           L2 == [L1 EXCEPT !.address = (L1.address + 2) % WordMod]
           left == SizeMinus(size, 2)
       IN
       /\ pc = "read_flash"
       /\ p < MaxIndex
       /\ size' = left
       /\ IF left # 0
          THEN /\ SetLocals(L2)
               /\ p' = p + 2
               /\ UNCHANGED pc
          ELSE /\ SetLocals(Store(L2, p + 2, STATUS_CMD_OK, ub))
               /\ p' = p + 3
               /\ pc' = "send"
       /\ UNCHANGED <<tempaddress, memory, rx, tx, frame, stages, nReady, nReplies,
                      answered, spmLog, cmdLog, prevSeq, expSeq, lastReject,
                      nRx, nFrames, nTimeouts>>

\* Read EEPROM: do { ... } while(size), then the trailing STATUS_CMD_OK
ReadEepromStep ==
    /\ UNCHANGED otherPrograms
    /\ \E ub \in UbChoices(p + 1) :
       LET L1 == Store(Locals, p, EepromByte(eeprom, address % EEPROM_SIZE), ub)
           L2 == [L1 EXCEPT !.address = (address + 1) % WordMod]
           left == SizeMinus(size, 1)
       IN
       /\ pc = "read_eeprom"
       /\ p < MaxIndex
       /\ size' = left
       /\ IF left # 0
          THEN /\ SetLocals(L2)
               /\ p' = p + 1
               /\ UNCHANGED pc
          ELSE /\ SetLocals(Store(L2, p + 1, STATUS_CMD_OK, ub))
               /\ p' = p + 2
               /\ pc' = "send"
       /\ UNCHANGED <<tempaddress, memory, rx, tx, frame, stages, nReady, nReplies,
                      answered, spmLog, cmdLog, prevSeq, expSeq, lastReject,
                      nRx, nFrames, nTimeouts>>

(***************************************************************************)
(* Sending the answer, seqNum++ and the test of the main loop.             *)
(***************************************************************************)
\* mutant: the token is sent but not folded into the checksum
ReplyFrame_TokenNotFolded(sn, len, payload) ==
    LET head == <<MESSAGE_START, sn, (len \div 256) % 256, len % 256, TOKEN>> \o payload
    IN Append(head, BitXor(XorSeq(head), TOKEN))

\* the bytes sendchar() is called with, in order
ReplyFrame(sn, len, payload) ==
    LET head == <<MESSAGE_START, sn, (len \div 256) % 256, len % 256, TOKEN>> \o payload
    IN Append(head, XorSeq(head))

\* if ( isLeave < 2 )
Replies(leave) == leave < 2

\* mutant: the counter is wider than 8 bits
NextSeqNum_NoWrap(sn) == sn + 1

\* seqNum++ on an unsigned char
NextSeqNum(sn) == (sn + 1) % ByteMod

\* while ( ! isLeave ) ends
LoopEnds(leave) == leave # 0

\* mutant: the receive state is not put back at the top of the main loop
Restart_Keep(st) == st

\* msgParseState = ST_START at the top of the main loop
Restart(st) == "ST_START"

SendAnswer ==
    /\ UNCHANGED otherPrograms
    /\ \E g \in (IF msgLength > MsgBufferSize THEN StackFill ELSE {0}) :
       LET payload == [k \in 1..msgLength |-> BufByte(msgBuffer, k - 1, g)]
           reply == ReplyFrame(seqNum, msgLength, payload)
       IN
       /\ pc = "send"
       /\ IF Replies(isLeave)
          THEN /\ tx' = reply
               /\ checksum' = reply[Len(reply)]
               /\ msgLength' = 0
               /\ seqNum' = NextSeqNum(seqNum)
               /\ nReplies' = nReplies + 1
               /\ oob' = (oob \/ msgLength > MsgBufferSize)
          ELSE UNCHANGED <<tx, checksum, msgLength, seqNum, nReplies, oob>>
       /\ pc' = IF LoopEnds(isLeave) THEN "done" ELSE "recv"
       /\ msgParseState' = IF LoopEnds(isLeave) THEN msgParseState ELSE Restart(msgParseState)
       /\ frame' = <<>>
       /\ stages' = <<>>
       /\ expSeq' = IF Replies(isLeave) THEN (reply[2] + 1) % ByteMod ELSE expSeq
       /\ UNCHANGED <<address, i, msgBuffer, isLeave, blockLocals, memory, rx, nReady,
                      answered, spmLog, cmdLog, prevSeq, lastReject,
                      nRx, nFrames, nTimeouts>>

(***************************************************************************)
(* The host at the other end of the UART.                                  *)
(***************************************************************************)
\* byte values the host sends one at a time
HostBytes == {0, 1, TOKEN, MESSAGE_START, CMD_PROGRAMMER_TIMEOUT}

\* the frame under way has all the payload bytes its header declares
PayloadComplete ==
    /\ Len(frame) >= 5
    /\ Len(frame) = 5 + frame[3] * 256 + frame[4]

HostSendByte ==
    /\ rx = <<>>
    /\ nRx < MaxRx
    /\ \E c \in HostBytes \cup (IF PayloadComplete THEN {XorSeq(frame)} ELSE {}) :
          rx' = <<c>>
    /\ nRx' = nRx + 1
    /\ UNCHANGED <<locals, blockLocals, pc, memory, tx, history, nFrames, nTimeouts>>
    /\ UNCHANGED otherPrograms

\* a frame as a host builds it
HostFrame(sn, payload) ==
    LET head == <<MESSAGE_START, sn, Len(payload) \div 256, Len(payload) % 256, TOKEN>>
                \o payload
    IN Append(head, XorSeq(head))

\* the frame with its checksum byte damaged
BadChecksum(f) == [f EXCEPT ![Len(f)] = BitXor(f[Len(f)], 255)]

\* the sequence number the host uses next: one more than in the last reply
HostNextSeq == IF tx = <<>> THEN 1 ELSE (tx[2] + 1) % ByteMod

\* the sequence number of the last reply (0 before the first reply)
HostLastSeq == IF tx = <<>> THEN 0 ELSE tx[2]

\* word addresses the host loads: inside page 0, the last word below the
\* boot section, the first word of the boot section
HostWords == {16, 31743, 31744}

HostData == <<165, 90, 60, 195>>

LoadAddressPayload(w) == <<CMD_LOAD_ADDRESS, 0, 0, w \div 256, w % 256>>
ProgramFlashPayload == <<CMD_PROGRAM_FLASH_ISP, 0, 4, 0, 0, 0, 0, 0, 0, 0>> \o HostData
ReadFlashPayload == <<CMD_READ_FLASH_ISP, 0, 4, 0>>

\* the frames of a flash session: in sequence, or a retry with number 1,
\* or with a damaged checksum
HostFlashFrames ==
    {HostFrame(HostNextSeq, LoadAddressPayload(w)) : w \in HostWords}
    \cup {HostFrame(HostNextSeq, ProgramFlashPayload),
          HostFrame(HostNextSeq, ReadFlashPayload),
          HostFrame(1, ReadFlashPayload),
          BadChecksum(HostFrame(HostNextSeq, ProgramFlashPayload))}

HostSendFrame ==
    /\ rx = <<>>
    /\ pc = "recv"
    /\ nFrames < MaxFrames
    /\ \E f \in HostFlashFrames : rx' = f
    /\ nFrames' = nFrames + 1
    /\ UNCHANGED <<locals, blockLocals, pc, memory, tx, history, nRx, nTimeouts>>
    /\ UNCHANGED otherPrograms

\* sequence numbers a host may put into a frame
HostSeqChoices == {0, 1, HostNextSeq, HostLastSeq, 200}

\* a set-parameter frame with any of these numbers, possibly damaged
HostSendSeq ==
    /\ rx = <<>>
    /\ pc = "recv"
    /\ nFrames < MaxSeqFrames
    /\ \E sn \in HostSeqChoices, bad \in BOOLEAN :
          LET f == HostFrame(sn, <<CMD_SET_PARAMETER, 0, 0>>) IN
          rx' = IF bad THEN BadChecksum(f) ELSE f
    /\ nFrames' = nFrames + 1
    /\ UNCHANGED <<locals, blockLocals, pc, memory, tx, history, nRx, nTimeouts>>
    /\ UNCHANGED otherPrograms

\* a session in sequence: one set-parameter frame after each reply
HostSendNext ==
    /\ rx = <<>>
    /\ pc = "recv"
    /\ nFrames < MaxWrapFrames
    /\ rx' = HostFrame(HostNextSeq, <<CMD_SET_PARAMETER, 0, 0>>)
    /\ nFrames' = nFrames + 1
    /\ UNCHANGED <<locals, blockLocals, pc, memory, tx, history, nRx, nTimeouts>>
    /\ UNCHANGED otherPrograms

\* word addresses of a command session: inside page 0, and one that does not
\* fit into 16 bits once doubled
HostCmdWords == {16, 32784}

\* sizes of a read: even, odd
HostReadSizes == {4, 1}

ReadFlashPayloadOf(n) == <<CMD_READ_FLASH_ISP, n \div 256, n % 256, 0>>
ChipErasePayload == <<CMD_CHIP_ERASE_ISP, 0, 0, 0, 0, 0, 0>>
ProgramEepromPayload == <<CMD_PROGRAM_EEPROM_ISP, 0, 2, 0, 0, 0, 0, 0, 0, 0, 165, 90>>
ReadEepromPayload == <<CMD_READ_EEPROM_ISP, 0, 2, 0>>

HostCmdPayloads ==
    {LoadAddressPayload(w) : w \in HostCmdWords}
    \cup {ReadFlashPayloadOf(n) : n \in HostReadSizes}
    \cup {ChipErasePayload, ProgramFlashPayload, ProgramEepromPayload, ReadEepromPayload}

\* a command session: frames in sequence, each after the reply to the last
HostSendCmd ==
    /\ rx = <<>>
    /\ pc = "recv"
    /\ nFrames < MaxCmdFrames
    /\ \E pl \in HostCmdPayloads : rx' = HostFrame(HostNextSeq, pl)
    /\ nFrames' = nFrames + 1
    /\ UNCHANGED <<locals, blockLocals, pc, memory, tx, history, nRx, nTimeouts>>
    /\ UNCHANGED otherPrograms

HostLivePayloads == {<<CMD_SET_PARAMETER, 0, 0>>, LoadAddressPayload(16)}

\* the host sends a frame or only the first bytes of one, then nothing more
HostSendPart ==
    /\ rx = <<>>
    /\ pc = "recv"
    /\ nFrames < MaxLiveFrames
    /\ \E pl \in HostLivePayloads :
          LET f == HostFrame(HostNextSeq, pl) IN
          \E k \in 1..Len(f) : rx' = SubSeq(f, 1, k)
    /\ nFrames' = nFrames + 1
    /\ UNCHANGED <<locals, blockLocals, pc, memory, tx, history, nRx, nTimeouts>>
    /\ UNCHANGED otherPrograms

\* signature indexes a host asks for: the three bytes, and one behind them
HostSignatureIndexes == {0, 1, 2, 255}

SignOnPayload == <<CMD_SIGN_ON>>
GetParameterPayload(id) == <<CMD_GET_PARAMETER, id>>
ReadSignaturePayload(k) == <<CMD_READ_SIGNATURE_ISP, 0, 0, 0, k>>
ReadLockPayload == <<CMD_READ_LOCK_ISP, 0, 0, 0>>
ReadFusePayload(b2, b3) == <<CMD_READ_FUSE_ISP, 0, b2, b3>>
\* multi-SPI: 4 bytes to send, 4 to receive, start 0, then the instruction
SpiMultiPayload(ins1, ins2, k) == <<CMD_SPI_MULTI, 4, 4, 0, ins1, ins2, k, 0>>

\* the bytes of the sign-on example: declared length 2, one payload byte
SignOnExample ==
    LET head == <<MESSAGE_START, 1, 0, 2, TOKEN, CMD_SIGN_ON>>
    IN Append(head, XorSeq(head))

HostQueryPayloads ==
    {SignOnPayload, <<CMD_SET_PARAMETER, 0, 0>>, <<CMD_ENTER_PROGMODE_ISP>>,
     <<CMD_LEAVE_PROGMODE_ISP>>, ReadLockPayload,
     GetParameterPayload(PARAM_SW_MAJOR), GetParameterPayload(0),
     ReadFusePayload(80, 8), ReadFusePayload(80, 0), ReadFusePayload(88, 8),
     SpiMultiPayload(32, 77, 0),
     LoadAddressPayload(16), ProgramFlashPayload, ReadFlashPayload,
     ProgramEepromPayload, ReadEepromPayload}
    \cup {ReadSignaturePayload(k) : k \in HostSignatureIndexes}
    \cup {SpiMultiPayload(48, 0, k) : k \in HostSignatureIndexes}

\* a session of queries and commands: frames in sequence, each after the
\* reply to the last, or the bytes of the sign-on example
HostSendQuery ==
    /\ rx = <<>>
    /\ pc = "recv"
    /\ nFrames < MaxQueryFrames
    /\ \/ \E pl \in HostQueryPayloads : rx' = HostFrame(HostNextSeq, pl)
       \/ rx' = SignOnExample
    /\ nFrames' = nFrames + 1
    /\ UNCHANGED <<locals, blockLocals, pc, memory, tx, history, nRx, nTimeouts>>
    /\ UNCHANGED otherPrograms

\* payload lengths of long frames: the longest that fits into msgBuffer, and
\* one byte more
HostLongLengths == {MsgBufferSize, MsgBufferSize + 1}

\* a frame with a payload of n bytes: a set-parameter command followed by
\* filler bytes of 0, which leave the checksum as it is
LongFrame(sn, n) ==
    LET head == <<MESSAGE_START, sn, n \div 256, n % 256, TOKEN, CMD_SET_PARAMETER>>
    IN head \o [k \in 1..(n - 1) |-> 0] \o <<XorSeq(head)>>

\* the host sends frames as long as msgBuffer, or longer, each once the
\* frame before it is done with
HostSendLong ==
    /\ rx = <<>>
    /\ pc = "recv"
    /\ msgParseState = "ST_START"
    /\ nFrames < MaxLongFrames
    /\ \E n \in HostLongLengths : rx' = LongFrame(HostNextSeq, n)
    /\ nFrames' = nFrames + 1
    /\ UNCHANGED <<locals, blockLocals, pc, memory, tx, history, nRx, nTimeouts>>
    /\ UNCHANGED otherPrograms

\* the host does not wait for replies: it sends a set-parameter frame
\* behind whatever the UART still holds, numbered as a restart or after the
\* last reply it has seen
HostSendAhead ==
    /\ nFrames < MaxAheadFrames
    /\ \E sn \in {1, HostNextSeq} :
          rx' = rx \o HostFrame(sn, <<CMD_SET_PARAMETER, 0, 0>>)
    /\ nFrames' = nFrames + 1
    /\ UNCHANGED <<locals, blockLocals, pc, memory, tx, history, nRx, nTimeouts>>
    /\ UNCHANGED otherPrograms

\* sizes of a program-flash command: odd, even
HostFlashSizes == {3, 4}

\* sizes of a program-EEPROM command: none, two bytes
HostEepromSizes == {0, 2}

\* a program command of size n: command, size, seven bytes of mode and
\* instructions, then n data bytes
ProgramPayloadOf(cmd, n) ==
    <<cmd, n \div 256, n % 256, 0, 0, 0, 0, 0, 0, 0>> \o SubSeq(HostData, 1, n)

\* word addresses of a session with sizes of every kind
HostSizeWords == {0, 16}

HostSizePayloads ==
    {LoadAddressPayload(w) : w \in HostSizeWords}
    \cup {ReadFlashPayload, ReadEepromPayload}
    \cup {ProgramPayloadOf(CMD_PROGRAM_FLASH_ISP, n) : n \in HostFlashSizes}
    \cup {ProgramPayloadOf(CMD_PROGRAM_EEPROM_ISP, n) : n \in HostEepromSizes}

\* sizes of a long read-flash command: the largest whose answer fits into
\* msgBuffer, and the next even size
HostLongReadSizes == {MsgBufferSize - 3, MsgBufferSize - 1}

\* the host reads flash in long pieces
HostSendRead ==
    /\ rx = <<>>
    /\ pc = "recv"
    /\ nFrames < MaxReadFrames
    /\ \E n \in HostLongReadSizes : rx' = HostFrame(HostNextSeq, ReadFlashPayloadOf(n))
    /\ nFrames' = nFrames + 1
    /\ UNCHANGED <<locals, blockLocals, pc, memory, tx, history, nRx, nTimeouts>>
    /\ UNCHANGED otherPrograms

\* a programming session with sizes of every kind
HostSendSize ==
    /\ rx = <<>>
    /\ pc = "recv"
    /\ nFrames < MaxSizeFrames
    /\ \E pl \in HostSizePayloads : rx' = HostFrame(HostNextSeq, pl)
    /\ nFrames' = nFrames + 1
    /\ UNCHANGED <<locals, blockLocals, pc, memory, tx, history, nRx, nTimeouts>>
    /\ UNCHANGED otherPrograms

(***************************************************************************)
(* Specifications.                                                         *)
(***************************************************************************)
\* the host sends single bytes
Next ==
    \/ HostSendByte
    \/ RecvByte
    \/ RecvTimeout
    \/ Dispatch
    \/ SendAnswer

Spec == Init /\ [][Next]_vars

\* the host sends the frames of a flash session
NextFrames ==
    \/ HostSendFrame
    \/ RecvByte
    \/ RecvTimeout
    \/ Dispatch
    \/ ProgramFlashStep
    \/ ReadFlashStep
    \/ SendAnswer

SpecFrames == Init /\ [][NextFrames]_vars

\* the host sends frames with right and wrong sequence numbers
NextSeq ==
    \/ HostSendSeq
    \/ RecvByte
    \/ RecvTimeout
    \/ Dispatch
    \/ SendAnswer

SpecSeq == Init /\ [][NextSeq]_vars

\* the host sends frames in sequence, each after the reply to the last
NextWrap ==
    \/ HostSendNext
    \/ RecvByte
    \/ RecvTimeout
    \/ Dispatch
    \/ SendAnswer

SpecWrap == Init /\ [][NextWrap]_vars

\* the host sends the commands of a programming session
NextCmds ==
    \/ HostSendCmd
    \/ RecvByte
    \/ RecvTimeout
    \/ Dispatch
    \/ ProgramFlashStep
    \/ ProgramEepromStep
    \/ ReadFlashStep
    \/ ReadEepromStep
    \/ SendAnswer

SpecCmds == Init /\ [][NextCmds]_vars

\* the host falls silent, at the latest after MaxLiveFrames frames, and every
\* receive wait from then on expires
NextLive ==
    \/ HostSendPart
    \/ RecvByte
    \/ RecvExpire
    \/ Dispatch
    \/ SendAnswer

\* main() keeps running: a byte that arrived is taken, a wait without a byte
\* runs out after PROGRAMMER_WAIT_SECONDS, the switch and the answer are
\* straight-line code
SpecLive ==
    /\ Init
    /\ [][NextLive]_vars
    /\ WF_vars(RecvByte)
    /\ WF_vars(RecvExpire)
    /\ WF_vars(Dispatch)
    /\ WF_vars(SendAnswer)

\* the host sends queries and commands of every kind
NextQuery ==
    \/ HostSendQuery
    \/ RecvByte
    \/ RecvTimeout
    \/ Dispatch
    \/ ProgramFlashStep
    \/ ProgramEepromStep
    \/ ReadFlashStep
    \/ ReadEepromStep
    \/ SendAnswer

SpecQuery == Init /\ [][NextQuery]_vars

\* the host sends long frames
NextLong ==
    \/ HostSendLong
    \/ RecvByte
    \/ RecvTimeout
    \/ Dispatch
    \/ SendAnswer

SpecLong == Init /\ [][NextLong]_vars

\* the host sends frames without waiting for the replies
NextAhead ==
    \/ HostSendAhead
    \/ RecvByte
    \/ RecvTimeout
    \/ Dispatch
    \/ SendAnswer

SpecAhead == Init /\ [][NextAhead]_vars

\* the host programs and reads with sizes of every kind
NextSizes ==
    \/ HostSendSize
    \/ RecvByte
    \/ RecvTimeout
    \/ Dispatch
    \/ ProgramFlashStep
    \/ ProgramEepromStep
    \/ ReadFlashStep
    \/ ReadEepromStep
    \/ SendAnswer

SpecSizes == Init /\ [][NextSizes]_vars

\* the host reads flash in long pieces
NextReads ==
    \/ HostSendRead
    \/ RecvByte
    \/ RecvTimeout
    \/ Dispatch
    \/ ReadFlashStep
    \/ SendAnswer

SpecReads == Init /\ [][NextReads]_vars

(***************************************************************************)
(* USB adapter firmware: CDC-SPI bridge.  The USB driver calls             *)
(* usbFunctionSetup() and usbFunctionWriteOut() from usbPoll(), at most    *)
(* one of them per call and none while requests are disabled; the host    *)
(* collects the packet handed to usbSetInterrupt() at a time of its own.  *)
(***************************************************************************)
\* packets the host sends to the bulk OUT endpoint in one run
MaxOutPackets == 3
\* control requests the host sends in one run
MaxSetups == 1
\* transfers of a packet in which the SPI slave answers freely
MaxSpiChoices == 1

HostOutLengths == {0, 1, HW_CDC_BULK_OUT_SIZE}
\* the n-th packet of the host starts with the byte 16 * n and counts up
OutPacket(n, len) == [k \in 1..len |-> (16 * n + k - 1) % ByteMod]
HostOutPackets == {OutPacket(nOut + 1, len) : len \in HostOutLengths}

\* bytes the SPI slave puts on the line during transfer k of a packet
SpiSlaveBytes == {0, 165}
MisoChoices(k) == IF k < MaxSpiChoices THEN SpiSlaveBytes ELSE {(255 - k) % ByteMod}

\* USB driver: it hands a request of the host to the firmware only while
\* requests are not disabled
usbRequestsAccepted == ~usbDisabled
\* USB driver: the interrupt-in endpoint is free for the next packet
usbInterruptIsReady == ~usbTxPending

\* request kinds usbFunctionSetup() tells apart
SetupKinds == {"line_coding", "class_to_device", "class_to_host", "other"}

\* sendEmptyFrame after usbFunctionSetup()
SetupEmptyFrame(kind, flag) == IF kind = "class_to_device" THEN 1 ELSE flag

\* what a store behind the end of rx_buf can hit
RxOverrunOutcomes == {"lost", "txptr", "rxptr"}

\* rx_buf after usbFunctionWriteOut() stored data from index at on
RxStored(buf, at, data) ==
    [k \in DOMAIN buf |->
        IF k >= at /\ k < at + Len(data) THEN data[k - at + 1] ELSE buf[k]]

usbFunctionWriteOut(data) ==
    \E hit \in (IF Len(data) > 0 /\ rxptr + Len(data) > HW_CDC_BULK_OUT_SIZE
                THEN RxOverrunOutcomes ELSE {"lost"}) :
        /\ rx_buf' = RxStored(rx_buf, rxptr, data)
        /\ rxptr' = IF hit = "rxptr" THEN data[Len(data)]
                    ELSE (rxptr + Len(data)) % ByteMod
        /\ txptr' = IF hit = "txptr" THEN data[Len(data)] ELSE txptr
        /\ usbDisabled' = TRUE
        /\ outLast' = data
        /\ nOut' = nOut + 1

UsbPollIdle ==
    /\ loopAt = "poll"
    /\ loopAt' = "host"
    /\ UNCHANGED <<tx_buf, rx_buf, txptr, rxptr, sendEmptyFrame, usbDisabled,
                   usbTxPending, outLast, nOut, spiLog, inLast, inPrev, nSetup>>
    /\ UNCHANGED <<stk500, forwarder>>

UsbPollSetup ==
    /\ loopAt = "poll"
    /\ usbRequestsAccepted
    /\ nSetup < MaxSetups
    /\ \E kind \in SetupKinds :
           sendEmptyFrame' = SetupEmptyFrame(kind, sendEmptyFrame)
    /\ nSetup' = nSetup + 1
    /\ loopAt' = "host"
    /\ UNCHANGED <<tx_buf, rx_buf, txptr, rxptr, usbDisabled, usbTxPending,
                   outLast, nOut, spiLog, inLast, inPrev>>
    /\ UNCHANGED <<stk500, forwarder>>

UsbPollWriteOut ==
    /\ loopAt = "poll"
    /\ usbRequestsAccepted
    /\ nOut < MaxOutPackets
    /\ \E data \in HostOutPackets : usbFunctionWriteOut(data)
    /\ loopAt' = "host"
    /\ UNCHANGED <<tx_buf, sendEmptyFrame, usbTxPending, spiLog, inLast, inPrev, nSetup>>
    /\ UNCHANGED <<stk500, forwarder>>

\* the host collects the packet waiting in the interrupt-in endpoint
HostFetch ==
    /\ usbTxPending
    /\ usbTxPending' = FALSE
    /\ UNCHANGED <<tx_buf, rx_buf, txptr, rxptr, sendEmptyFrame, usbDisabled,
                   loopAt, outLast, nOut, spiLog, inLast, inPrev, nSetup>>
    /\ UNCHANGED <<stk500, forwarder>>

\* mutant: requests are enabled again whatever txptr is
RequestsDisabled_Never(tp, disabled) == FALSE

\* usbAllRequestsAreDisabled() after the test of txptr in the main loop
RequestsDisabled(tp, disabled) == IF tp = 0 THEN FALSE ELSE disabled

\* main loop, "host => here": the test of txptr and the re-enabling
MainHost ==
    /\ loopAt = "host"
    /\ usbDisabled' = RequestsDisabled(txptr, usbDisabled)
    /\ IF txptr = 0 /\ rxptr # 0
       THEN /\ loopAt' = "shift"
            /\ spiLog' = [mosi |-> <<>>, miso |-> <<>>]
       ELSE /\ loopAt' = "device"
            /\ spiLog' = spiLog
    /\ UNCHANGED <<tx_buf, rx_buf, txptr, rxptr, sendEmptyFrame, usbTxPending,
                   outLast, nOut, inLast, inPrev, nSetup>>
    /\ UNCHANGED <<stk500, forwarder>>

\* a byte of rx_buf; an index outside the array reads whatever lies behind it
RxByte(k, g) == IF k < HW_CDC_BULK_OUT_SIZE THEN rx_buf[k] ELSE g

\* main loop: one pass of the while (rxptr) loop, one SPI transfer
MainShift ==
    /\ loopAt = "shift"
    /\ \E miso \in MisoChoices(txptr),
          g \in (IF txptr < HW_CDC_BULK_OUT_SIZE THEN {0} ELSE StackFill) :
        LET mosi == RxByte(txptr, g)
        IN /\ tx_buf' = IF txptr < HW_CDC_BULK_IN_SIZE
                        THEN [tx_buf EXCEPT ![txptr] = miso] ELSE tx_buf
           /\ rx_buf' = IF txptr >= HW_CDC_BULK_IN_SIZE
                           /\ txptr - HW_CDC_BULK_IN_SIZE < HW_CDC_BULK_OUT_SIZE
                           /\ g = 255
                        THEN [rx_buf EXCEPT ![txptr - HW_CDC_BULK_IN_SIZE] = miso]
                        ELSE rx_buf
           /\ spiLog' = [mosi |-> Append(spiLog.mosi, mosi),
                          miso |-> Append(spiLog.miso, miso)]
    /\ txptr' = (txptr + 1) % ByteMod
    /\ rxptr' = (rxptr + ByteMod - 1) % ByteMod
    /\ loopAt' = IF rxptr' = 0 THEN "device" ELSE "shift"
    /\ UNCHANGED <<sendEmptyFrame, usbDisabled, usbTxPending, outLast, nOut, inLast,
                   inPrev, nSetup>>
    /\ UNCHANGED <<stk500, forwarder>>

\* mutant: no empty packet after a full one
EmptyFrameAfter_Never(tp) == 0

\* sendEmptyFrame after a packet of tp bytes was handed to the driver
EmptyFrameAfter(tp) == BitAnd(tp, HW_CDC_BULK_IN_SIZE)

\* the first n bytes of tx_buf, as usbSetInterrupt() copies them
TxPacket(n) == [k \in 1..n |-> IF k - 1 < HW_CDC_BULK_IN_SIZE THEN tx_buf[k - 1] ELSE 0]

\* main loop, "here => host"
MainDevice ==
    /\ loopAt = "device"
    /\ IF usbInterruptIsReady /\ BitOr(txptr, sendEmptyFrame) # 0
       THEN /\ inLast' = TxPacket(txptr)
            /\ inPrev' = Len(inLast)
            /\ usbTxPending' = TRUE
            /\ sendEmptyFrame' = EmptyFrameAfter(txptr)
            /\ txptr' = 0
       ELSE UNCHANGED <<inLast, inPrev, usbTxPending, sendEmptyFrame, txptr>>
    /\ loopAt' = "poll"
    /\ UNCHANGED <<tx_buf, rx_buf, rxptr, usbDisabled, outLast, nOut, spiLog, nSetup>>
    /\ UNCHANGED <<stk500, forwarder>>

NextAdapter ==
    \/ UsbPollIdle
    \/ UsbPollSetup
    \/ UsbPollWriteOut
    \/ HostFetch
    \/ MainHost
    \/ MainShift
    \/ MainDevice

SpecAdapter == Init /\ [][NextAdapter]_vars

(***************************************************************************)
(* MCP2200 forwarder.  All callbacks run on the one run loop of main(), in  *)
(* the order in which their events come up.  Interfaces and buffers are    *)
(* numbered by the device they belong to; 0 is NULL.                       *)
(***************************************************************************)
\* devices plugged in during one run
MaxPlugs == 2
\* packets arriving from the device during one run
MaxData == 2

IfaceId(d, j) == 10 * d + j
IfaceDevice(id) == id \div 10
ReadBufferOf(d) == 10 * d + 8
WriteBufferOf(d) == 10 * d + 9

\* the globals, the reads in flight and the objects given back, as one record
Globals ==
    [intr |-> gUsbInterruptInterface, bulk |-> gUsbBulkInterface,
     rbuf |-> gReadBuffer, wbuf |-> gWriteBuffer,
     reads |-> asyncReads, released |-> released, freed |-> freed, nRead |-> nRead]

SetGlobals(G) ==
    /\ gUsbInterruptInterface' = G.intr
    /\ gUsbBulkInterface' = G.bulk
    /\ gReadBuffer' = G.rbuf
    /\ gWriteBuffer' = G.wbuf
    /\ asyncReads' = G.reads
    /\ released' = G.released
    /\ freed' = G.freed
    /\ nRead' = G.nRead

\* USBInterfaceClose(): a read armed on the interface completes with an error
Aborted(rs, id) ==
    {IF r.iface = id /\ r.st = "armed" THEN [r EXCEPT !.st = "error"] ELSE r : r \in rs}

\* close_interface(): frees the buffers, closes and releases the interfaces
close_interface(G) ==
    LET G1 == IF G.rbuf # 0
              THEN [G EXCEPT !.freed = @ \cup {G.rbuf}, !.rbuf = 0] ELSE G
        G2 == IF G1.wbuf # 0
              THEN [G1 EXCEPT !.freed = @ \cup {G1.wbuf}, !.wbuf = 0] ELSE G1
        G3 == IF G2.bulk # 0
              THEN [G2 EXCEPT !.reads = Aborted(@, G2.bulk),
                              !.released = @ \cup {G2.bulk}, !.bulk = 0]
              ELSE G2
    IN IF G3.intr # 0
       THEN [G3 EXCEPT !.reads = Aborted(@, G3.intr),
                       !.released = @ \cup {G3.intr}, !.intr = 0]
       ELSE G3

\* ReadPipeAsync() has succeeded on interface id
ArmRead(G, id) ==
    [G EXCEPT !.reads = @ \cup {[n |-> G.nRead + 1, iface |-> id, buf |-> G.rbuf,
                                 st |-> "armed"]},
              !.nRead = @ + 1]

\* what a device does when it is added: it is not the wanted one, a call of
\* device_added() or find_interfaces() fails on it, or nothing fails
DeviceFates ==
    {"unwanted", "open_fails", "configure_fails", "malloc_read_fails",
     "malloc_write_fails", "source_fails", "read_fails", "setup_fails", "ok"}
\* the interfaces of a device in the order of the iterator, each named by the
\* transfer type of its last pipe; "busy" cannot be opened
DeviceInterfaces ==
    {<<"interrupt", "bulk", "interrupt">>, <<"bulk", "interrupt">>,
     <<"busy", "bulk">>, <<"interrupt", "busy">>}
Devices(d) == [n : {d}, fate : DeviceFates, ifaces : DeviceInterfaces]

RECURSIVE find_interfaces(_, _, _)
find_interfaces(G, dev, j) ==
    IF j > Len(dev.ifaces) THEN G
    ELSE LET id == IfaceId(dev.n, j)
             kind == dev.ifaces[j]
         IN IF kind = "busy"
            THEN find_interfaces([G EXCEPT !.released = @ \cup {id}], dev, j + 1)
            ELSE IF G.bulk = 0 /\ kind = "bulk"
            THEN LET G1 == [G EXCEPT !.bulk = id]
                     G2 == [G1 EXCEPT !.rbuf = ReadBufferOf(dev.n)]
                     G3 == [G2 EXCEPT !.wbuf = WriteBufferOf(dev.n)]
                 IN IF dev.fate = "malloc_read_fails" THEN close_interface(G1)
                    ELSE IF dev.fate = "malloc_write_fails" THEN close_interface(G2)
                    ELSE IF dev.fate \in {"source_fails", "read_fails"}
                    THEN close_interface(G3)
                    ELSE find_interfaces(ArmRead(G3, id), dev, j + 1)
            ELSE IF G.intr = 0 /\ kind = "interrupt"
            THEN find_interfaces([G EXCEPT !.intr = id], dev, j + 1)
            ELSE find_interfaces([G EXCEPT !.released = @ \cup {id}], dev, j + 1)

\* the globals after device_added() has handled dev, and how it ended
device_added(G, dev) ==
    IF dev.fate \in {"unwanted", "open_fails", "configure_fails"}
    THEN [G |-> G, why |-> dev.fate]
    ELSE LET F == find_interfaces(G, dev, 1)
         IN IF F.bulk = 0 \/ F.intr = 0
            THEN [G |-> F, why |-> "no_interfaces"]
            ELSE IF dev.fate = "setup_fails"
            THEN [G |-> close_interface(F), why |-> "setup_fails"]
            ELSE [G |-> F, why |-> "ok"]

\* main() calls device_added() for the devices already there; later it is
\* the callback for a device plugged in
DeviceAdded ==
    /\ runAt \in {"start", "loop"}
    /\ nPlug < MaxPlugs
    /\ \E dev \in Devices(nPlug + 1) :
        LET A == device_added(Globals, dev)
        IN /\ SetGlobals(A.G)
           /\ gaveUp' = [dev |-> dev.n, why |-> A.why]
    /\ nPlug' = nPlug + 1
    /\ present' = present \cup {nPlug + 1}
    /\ runAt' = IF runAt = "start" THEN "pty" ELSE runAt
    /\ UNCHANGED <<gPtyPipe, nData, ptyLog, usedReleased, lastCompletion>>
    /\ UNCHANGED <<stk500, adapter>>

\* main(): no device is there at the start
MainNoDevice ==
    /\ runAt = "start"
    /\ runAt' = "pty"
    /\ UNCHANGED <<gUsbInterruptInterface, gUsbBulkInterface, gReadBuffer, gWriteBuffer,
                   gPtyPipe, asyncReads, released, freed, present, nRead, nPlug, nData,
                   ptyLog, usedReleased, gaveUp, lastCompletion>>
    /\ UNCHANGED <<stk500, adapter>>

\* main(): pty_open(), then the run loop or the end of the program
MainPtyOpen ==
    /\ runAt = "pty"
    /\ \E ok \in BOOLEAN :
        /\ gPtyPipe' = IF ok THEN 3 ELSE -1
        /\ runAt' = IF ok THEN "loop" ELSE "exit"
    /\ UNCHANGED <<gUsbInterruptInterface, gUsbBulkInterface, gReadBuffer, gWriteBuffer,
                   asyncReads, released, freed, present, nRead, nPlug, nData,
                   ptyLog, usedReleased, gaveUp, lastCompletion>>
    /\ UNCHANGED <<stk500, adapter>>

\* a device is unplugged: device_removed() runs for it
DeviceRemoved ==
    /\ runAt = "loop"
    /\ \E d \in present : present' = present \ {d}
    /\ SetGlobals(close_interface(Globals))
    /\ UNCHANGED <<gPtyPipe, runAt, nPlug, nData, ptyLog, usedReleased, gaveUp,
                   lastCompletion>>
    /\ UNCHANGED <<stk500, adapter>>

\* the PTY has bytes: pty_read() writes them to the bulk pipe
PtyRead ==
    /\ runAt = "loop"
    /\ \E ok \in BOOLEAN :
        IF gUsbBulkInterface # 0 /\ ~ok
        THEN SetGlobals(close_interface(Globals))
        ELSE SetGlobals(Globals)
    /\ UNCHANGED <<gPtyPipe, present, runAt, nPlug, nData, ptyLog, usedReleased,
                   gaveUp, lastCompletion>>
    /\ UNCHANGED <<stk500, adapter>>

\* I/O Kit: a packet of the device completes an armed read
DataArrives ==
    /\ nData < MaxData
    /\ \E r \in asyncReads :
        /\ r.st = "armed"
        /\ asyncReads' = (asyncReads \ {r}) \cup {[r EXCEPT !.st = "success"]}
    /\ nData' = nData + 1
    /\ UNCHANGED <<gUsbInterruptInterface, gUsbBulkInterface, gReadBuffer, gWriteBuffer,
                   gPtyPipe, released, freed, present, runAt, nRead, nPlug,
                   ptyLog, usedReleased, gaveUp, lastCompletion>>
    /\ UNCHANGED <<stk500, adapter>>

\* I/O Kit: an armed read ends with an error
ReadFails ==
    /\ \E r \in asyncReads :
        /\ r.st = "armed"
        /\ asyncReads' = (asyncReads \ {r}) \cup {[r EXCEPT !.st = "error"]}
    /\ UNCHANGED <<gUsbInterruptInterface, gUsbBulkInterface, gReadBuffer, gWriteBuffer,
                   gPtyPipe, released, freed, present, runAt, nRead, nPlug, nData,
                   ptyLog, usedReleased, gaveUp, lastCompletion>>
    /\ UNCHANGED <<stk500, adapter>>

\* what a call through a released interface can do: fail, reach an object
\* that took its place and arm a read there, or end the program
DanglingOutcomes == {"error", "armed", "crash"}

\* the run loop hands a finished read to read_completion()
ReadCompletion ==
    /\ runAt = "loop"
    /\ \E r \in asyncReads :
        /\ r.st \in {"success", "error"}
        /\ LET G == [Globals EXCEPT !.reads = @ \ {r}]
               done(how) == [n |-> r.n, result |-> r.st, how |-> how]
           IN IF r.st = "error"
              THEN /\ SetGlobals(close_interface(G))
                   /\ lastCompletion' = done("closed")
                   /\ UNCHANGED <<ptyLog, usedReleased, runAt>>
              ELSE /\ ptyLog' = IF gPtyPipe >= 0 THEN ptyLog + 1 ELSE ptyLog
                   /\ IF r.iface \in released
                      THEN /\ usedReleased' = TRUE
                           /\ \E outcome \in DanglingOutcomes :
                               /\ SetGlobals(CASE outcome = "error" -> close_interface(G)
                                               [] outcome = "armed" -> ArmRead(G, r.iface)
                                               [] outcome = "crash" -> G)
                               /\ runAt' = IF outcome = "crash" THEN "crashed" ELSE runAt
                               /\ lastCompletion' =
                                      done(CASE outcome = "error" -> "closed"
                                             [] outcome = "armed" -> "rearmed"
                                             [] outcome = "crash" -> "crashed")
                      ELSE /\ \E ok \in BOOLEAN :
                               /\ SetGlobals(IF ok THEN ArmRead(G, r.iface)
                                             ELSE close_interface(G))
                               /\ lastCompletion' = done(IF ok THEN "rearmed" ELSE "closed")
                           /\ UNCHANGED <<usedReleased, runAt>>
    /\ UNCHANGED <<gPtyPipe, present, nPlug, nData, gaveUp>>
    /\ UNCHANGED <<stk500, adapter>>

NextForwarder ==
    \/ DeviceAdded
    \/ MainNoDevice
    \/ MainPtyOpen
    \/ DeviceRemoved
    \/ PtyRead
    \/ DataArrives
    \/ ReadFails
    \/ ReadCompletion

SpecForwarder == Init /\ [][NextForwarder]_vars

(***************************************************************************)
(* Properties.                                                             *)
(***************************************************************************)
Last(sq) == sq[Len(sq)]
Front(sq) == SubSeq(sq, 1, Len(sq) - 1)

\* this step is one pass of the receive loop, on byte RecvdByte
RecvStep == pc = "recv" /\ ((rx # <<>> /\ rx' = Tail(rx)) \/ nTimeouts' # nTimeouts)
RecvdByte == IF nTimeouts' # nTimeouts THEN CMD_PROGRAMMER_TIMEOUT ELSE Head(rx)

FullStages ==
    <<"ST_START", "ST_GET_SEQ_NUM", "ST_MSG_SIZE_1", "ST_MSG_SIZE_2", "ST_GET_TOKEN",
      "ST_GET_DATA", "ST_GET_CHECK", "ST_PROCESS">>

\* C1: whenever the parser has reached ST_PROCESS with a frame (bytes from a
\* start marker on) and the dispatcher is about to run, the last byte consumed
\* for the frame is the XOR of all bytes of the frame before it.
C1_ChecksumOfDispatchedFrame ==
    (pc = "dispatch" /\ frame # <<>> /\ frame[1] = MESSAGE_START)
        => (Len(frame) >= 7 /\ Last(frame) = XorSeq(Front(frame)))

C1_Witness ==
    /\ pc = "dispatch"
    /\ Len(frame) >= 7
    /\ frame[1] = MESSAGE_START
    /\ msgBuffer[0] = frame[6]

\* C2 as stated: the dispatcher is entered only after all seven parser stages
\* were passed in order for one frame.
C2_DispatchOnlyAfterAllStages ==
    pc = "dispatch" => stages = FullStages

\* C2 amended: the dispatcher is entered after all seven stages were passed in
\* order for one frame, or straight from ST_START on the byte 0x2F (a receive
\* timeout or that byte itself) with msgBuffer[0] = 0x2F; a mismatch at the
\* sequence, token or checksum stage puts the parser back in ST_START without
\* entering the dispatcher.
C2_DispatchStages ==
    [][ /\ (pc' = "dispatch" /\ pc = "recv") =>
              \/ stages' = FullStages /\ Len(frame') = 6 + frame'[3] * 256 + frame'[4]
              \/ /\ stages' = <<"ST_START", "ST_PROCESS">>
                 /\ frame' = <<CMD_PROGRAMMER_TIMEOUT>>
                 /\ msgBuffer'[0] = CMD_PROGRAMMER_TIMEOUT
        /\ ( /\ RecvStep
             /\ \/ msgParseState = "ST_GET_SEQ_NUM" /\ RecvdByte \notin {1, seqNum}
                \/ msgParseState = "ST_GET_TOKEN" /\ RecvdByte # TOKEN
                \/ msgParseState = "ST_GET_CHECK" /\ RecvdByte # XorSeq(frame) )
           => (msgParseState' = "ST_START" /\ pc' = "recv" /\ nReady' = nReady)
      ]_vars

C2_Witness ==
    /\ pc = "dispatch"
    /\ stages = FullStages
    /\ frame[5] = TOKEN

\* C3 as stated: a sequence byte is accepted only if it is 1 or the number of
\* the last answered frame, and only 1 for the first frame.
C3_AcceptsOneOrLastAccepted ==
    (pc = "recv" /\ msgParseState = "ST_MSG_SIZE_1")
        => (frame[2] = 1 \/ (nReplies > 0 /\ frame[2] = tx[2]))

\* C3 amended: in ST_GET_SEQ_NUM a byte is accepted exactly when it is 1 or the
\* expected number, which is 0 at entry, the accepted byte after an acceptance
\* and the answered number plus 1 (mod 256) after a reply; every other byte
\* resets the parser to ST_START.
C3_SeqAcceptance ==
    [][ (RecvStep /\ msgParseState = "ST_GET_SEQ_NUM") =>
            IF RecvdByte = 1 \/ RecvdByte = expSeq
            THEN msgParseState' = "ST_MSG_SIZE_1" /\ seqNum' = RecvdByte
            ELSE msgParseState' = "ST_START" /\ seqNum' = seqNum
      ]_vars

C3_Witness ==
    /\ msgParseState = "ST_MSG_SIZE_1"
    /\ frame[2] = 2
    /\ nReplies = 1
    /\ tx[2] = 1
    /\ lastReject = "ST_GET_SEQ_NUM"

\* C4: no flash location at or above BOOTLOADER_ADDRESS is ever erased or
\* written, also when a program-flash command starts below the boundary and
\* its size reaches past it.
C4_BootSectionUntouched ==
    /\ \A a \in DOMAIN flash : a < BOOTLOADER_ADDRESS
    /\ \A k \in 1..Len(spmLog) :
          spmLog[k][1] \in {"erase", "write"}
              => spmLog[k][2] + SPM_PAGESIZE <= BOOTLOADER_ADDRESS

C4_Witness ==
    /\ pc = "send"
    /\ msgBuffer[0] = CMD_PROGRAM_FLASH_ISP
    /\ tempaddress = BOOTLOADER_ADDRESS - 2
    /\ address = BOOTLOADER_ADDRESS + 2
    /\ spmLog # <<>>
    /\ Last(spmLog) = <<"write", BOOTLOADER_ADDRESS - SPM_PAGESIZE>>

\* the last dispatched command is a program-flash at or above the boundary
ProgramAtBoot ==
    /\ cmdLog # <<>>
    /\ Last(cmdLog).cmd = CMD_PROGRAM_FLASH_ISP
    /\ Last(cmdLog).addr >= BOOTLOADER_ADDRESS

\* C5: a program-flash command whose address is at or above the boundary does
\* no page erase, no page fill and no page write, and is answered with the
\* 2-byte payload [command, STATUS_CMD_OK].
C5_ProgramAtBootIsSilent ==
    [][ /\ (pc = "dispatch" /\ msgBuffer[0] = CMD_PROGRAM_FLASH_ISP
               /\ address >= BOOTLOADER_ADDRESS)
            => /\ pc' = "send"
               /\ flash' = flash /\ pageBuf' = pageBuf /\ spmLog' = <<>>
               /\ address' = address
        /\ (pc = "send" /\ ProgramAtBoot)
            => /\ spmLog = <<>>
               /\ flash' = flash /\ pageBuf' = pageBuf
               /\ nReplies' = nReplies + 1
               /\ SubSeq(tx', 3, 7) = <<0, 2, TOKEN, CMD_PROGRAM_FLASH_ISP, STATUS_CMD_OK>>
               /\ Len(tx') = 8
      ]_vars

C5_Witness ==
    /\ pc = "recv"
    /\ ProgramAtBoot
    /\ Len(tx) = 8
    /\ tx[6] = CMD_PROGRAM_FLASH_ISP
    /\ tx[7] = STATUS_CMD_OK
    /\ flash = <<>>

\* C6: a pass of the receive loop never sends anything, whatever the byte and
\* whatever it is rejected for; a reply is sent only for a frame that reached
\* ST_PROCESS.
C6_FramingFailureIsSilent ==
    [][ /\ RecvStep => (tx' = tx /\ nReplies' = nReplies)
        /\ (tx' # tx \/ nReplies' # nReplies)
              => (msgParseState = "ST_PROCESS" /\ pc = "send" /\ nReplies' <= nReady)
      ]_vars

C6_Witness ==
    /\ lastReject = "ST_GET_CHECK"
    /\ pc = "recv"
    /\ msgParseState = "ST_START"
    /\ nReplies = 0
    /\ tx = <<>>

\* C7: a frame rejected for its checksum byte produces no reply and leaves
\* seqNum equal to its value before the frame.
C7_BadChecksumKeepsSeqNum ==
    [][ (RecvStep /\ msgParseState = "ST_GET_CHECK" /\ msgParseState' = "ST_START")
            => (tx' = tx /\ nReplies' = nReplies /\ seqNum' = prevSeq)
      ]_vars

\* the last four commands are load-address w, program-flash of n bytes,
\* load-address w, read-flash of n bytes, and the read has been answered
RoundTripDone ==
    /\ Len(cmdLog) = 4
    /\ cmdLog[1].cmd = CMD_LOAD_ADDRESS
    /\ cmdLog[2].cmd = CMD_PROGRAM_FLASH_ISP
    /\ cmdLog[3].cmd = CMD_LOAD_ADDRESS
    /\ cmdLog[4].cmd = CMD_READ_FLASH_ISP
    /\ cmdLog[3].arg = cmdLog[1].arg
    /\ cmdLog[4].arg = cmdLog[2].arg
    /\ Len(cmdLog[2].data) >= cmdLog[2].arg
    /\ pc = "recv"
    /\ tx # <<>>
    /\ tx[6] = CMD_READ_FLASH_ISP

RoundTripWritten == SubSeq(cmdLog[2].data, 1, cmdLog[2].arg)
RoundTripRead == SubSeq(tx, 8, 7 + cmdLog[2].arg)

RoundTripInOnePage ==
    /\ cmdLog[2].addr < BOOTLOADER_ADDRESS - 1
    /\ (cmdLog[2].addr % SPM_PAGESIZE) + cmdLog[2].arg <= SPM_PAGESIZE
    /\ cmdLog[2].arg % 2 = 0
    /\ cmdLog[2].arg >= 2
    /\ cmdLog[2].arg + 10 <= MsgBufferSize

RECURSIVE ParseAll(_, _)
ParseAll(L, bytes) ==
    IF bytes = <<>> THEN L
    ELSE ParseAll(ParseStep(L, Head(bytes), "lost"), Tail(bytes))

\* the parser, expecting the number the frame carries, takes f as a frame
ParserAccepts(f) ==
    ParseAll([Locals EXCEPT !.st = "ST_START", !.seqNum = f[2]], f).st = "ST_PROCESS"

\* C9: every reply is [MESSAGE_START, number of the answered frame, length
\* high, length low, TOKEN, length payload bytes, checksum] with checksum the
\* XOR of all bytes before it, and the parser's rules accept it as a frame.
C9_ReplyLayout ==
    [][ nReplies' # nReplies =>
            /\ Len(tx') = msgLength + 6
            /\ tx'[1] = MESSAGE_START
            /\ tx'[2] = answered
            /\ tx'[3] * 256 + tx'[4] = msgLength
            /\ tx'[5] = TOKEN
            /\ \A k \in 1..msgLength : tx'[5 + k] = msgBuffer[k - 1]
            /\ Last(tx') = XorSeq(Front(tx'))
            /\ ParserAccepts(tx')
      ]_vars

C9_Witness ==
    /\ pc = "recv"
    /\ nReplies >= 2
    /\ Len(tx) = 13
    /\ tx[2] = 2
    /\ tx[6] = CMD_READ_FLASH_ISP

\* C10: after the reply to a frame with number s, seqNum is s + 1 modulo 256;
\* when the loop ends through the timeout sentinel nothing is sent and seqNum
\* stays.
C10_SeqNumAfterReply ==
    [][ /\ nReplies' # nReplies
            => (tx'[2] = answered /\ seqNum' = (answered + 1) % 256 /\ seqNum' \in Byte)
        /\ (pc = "send" /\ isLeave = 2 /\ pc' # pc)
            => (pc' = "done" /\ nReplies' = nReplies /\ tx' = tx /\ seqNum' = seqNum)
      ]_vars

C10_Witness ==
    /\ nReplies = 255
    /\ tx[2] = 255
    /\ seqNum = 0
    /\ pc = "recv"

\* two entries of the command history made by the same frame
SameFrame(e1, e2) ==
    e1.cmd = e2.cmd /\ e1.arg = e2.arg /\ e1.data = e2.data /\ e1.seq = e2.seq

\* the command being handled repeats the frame just answered
DuplicateUnderWay ==
    \/ /\ pc = "dispatch"
       /\ cmdLog # <<>>
       /\ SameFrame(LogEntry(Locals), Last(cmdLog))
    \/ /\ pc \in {"prog_flash", "prog_eeprom", "read_flash", "read_eeprom", "send"}
       /\ Len(cmdLog) >= 2
       /\ SameFrame(Last(cmdLog), cmdLog[Len(cmdLog) - 1])

\* C11: while a duplicate of the frame just answered (same sequence number,
\* same command and operands) is handled, no step changes address, flash or
\* EEPROM: they stay as the first copy left them, for every sequence number.
C11_DuplicateNotReapplied ==
    [][ DuplicateUnderWay => (address' = address /\ flash' = flash /\ eeprom' = eeprom)
      ]_vars

\* command codes that select an STK500v2 command in the switch of main()
StkCommands ==
    {CMD_SPI_MULTI, CMD_SIGN_ON, CMD_GET_PARAMETER, CMD_LEAVE_PROGMODE_ISP,
     CMD_ENTER_PROGMODE_ISP, CMD_SET_PARAMETER, CMD_READ_SIGNATURE_ISP,
     CMD_READ_LOCK_ISP, CMD_READ_FUSE_ISP, CMD_CHIP_ERASE_ISP, CMD_LOAD_ADDRESS,
     CMD_PROGRAM_FLASH_ISP, CMD_PROGRAM_EEPROM_ISP, CMD_READ_FLASH_ISP,
     CMD_READ_EEPROM_ISP}

\* the frame in hand passed all stages of the parser
Validated == stages = FullStages

\* C12: a validated frame whose command code is none of the STK500v2 commands
\* changes neither address, flash nor EEPROM, does not set isLeave, and is
\* answered with the 2-byte payload [command, STATUS_CMD_FAILED], after which
\* the parser waits for the next frame in ST_START.
C12_UnknownCommandFails ==
    [][ /\ (pc = "dispatch" /\ pc' # pc /\ Validated /\ msgBuffer[0] \notin StkCommands)
            => /\ pc' = "send"
               /\ msgLength' = 2
               /\ msgBuffer'[1] = STATUS_CMD_FAILED
               /\ address' = address /\ flash' = flash /\ eeprom' = eeprom
               /\ isLeave' = 0
        /\ (pc = "send" /\ pc' # pc /\ Validated /\ msgBuffer[0] \notin StkCommands)
            => /\ nReplies' = nReplies + 1
               /\ Len(tx') = 8
               /\ tx'[6] = msgBuffer[0]
               /\ tx'[7] = STATUS_CMD_FAILED
               /\ pc' = "recv"
               /\ msgParseState' = "ST_START"
      ]_vars

\* the last two commands are load-address with a word address of the device
\* (below 0x8000) and read-flash
ReadAfterLoad ==
    /\ Len(cmdLog) >= 2
    /\ Last(cmdLog).cmd = CMD_READ_FLASH_ISP
    /\ cmdLog[Len(cmdLog) - 1].cmd = CMD_LOAD_ADDRESS
    /\ cmdLog[Len(cmdLog) - 1].arg < 32768

ReadStart == 2 * cmdLog[Len(cmdLog) - 1].arg
ReadSize == Last(cmdLog).arg

\* C13: after load-address w, a read-flash of size n never moves address past
\* 2w + n, and once it is answered the reply payload is [command,
\* STATUS_CMD_OK, the n flash bytes from 2w on, STATUS_CMD_OK] and address is
\* 2w + n.
C13_ReadFlashAfterLoad ==
    ReadAfterLoad =>
        /\ pc \in {"read_flash", "send"} => address <= ReadStart + ReadSize
        /\ pc = "recv" =>
              /\ address = ReadStart + ReadSize
              /\ Len(tx) = ReadSize + 9
              /\ tx[3] * 256 + tx[4] = ReadSize + 3
              /\ tx[6] = CMD_READ_FLASH_ISP
              /\ tx[7] = STATUS_CMD_OK
              /\ \A k \in 1..ReadSize : tx[7 + k] = FlashByte(flash, ReadStart + k - 1)
              /\ tx[8 + ReadSize] = STATUS_CMD_OK

\* a validated load-address frame that carries both address bytes is in hand
LoadAddressFrame ==
    /\ Validated
    /\ msgBuffer[0] = CMD_LOAD_ADDRESS
    /\ Len(frame) >= 11

\* the word address in the frame's last two operand bytes
WordAddress == frame[9] * 256 + frame[10]

\* the reply to a load-address frame is [command, STATUS_CMD_OK]
LoadAddressReply ==
    /\ (pc = "dispatch" /\ LoadAddressFrame)
          => (pc' = "send" /\ msgLength' = 2 /\ msgBuffer'[0] = CMD_LOAD_ADDRESS
              /\ msgBuffer'[1] = STATUS_CMD_OK)
    /\ (pc = "send" /\ LoadAddressFrame)
          => (Len(tx') = 8 /\ tx'[6] = CMD_LOAD_ADDRESS /\ tx'[7] = STATUS_CMD_OK
              /\ address' = address)

\* C14 as stated: after load-address, address is the word address times 2, for
\* every word address two bytes can carry.
C14_LoadAddressTimesTwo ==
    [][ /\ (pc = "dispatch" /\ LoadAddressFrame) => address' = 2 * WordAddress
        /\ LoadAddressReply
      ]_vars

\* C14 amended: after load-address, address is the word address times 2 modulo
\* 65536 (the 16 bits of address_t), which is the word address times 2 for the
\* word addresses below 0x8000; the reply is [command, STATUS_CMD_OK].
C14_LoadAddressTimesTwoMod ==
    [][ /\ (pc = "dispatch" /\ LoadAddressFrame)
            => /\ address' = (2 * WordAddress) % WordMod
               /\ (WordAddress < 32768 => address' = 2 * WordAddress)
        /\ LoadAddressReply
      ]_vars

C14_Witness ==
    /\ pc = "send"
    /\ LoadAddressFrame
    /\ WordAddress = 32784
    /\ address = 32

\* C15: the main loop ends only on a validated leave-program-mode frame, which
\* is first answered with [command, STATUS_CMD_OK] and takes no further byte,
\* or after a receive wait has expired; bytes sent by the host that form no
\* such frame never end it.
C15_LoopEndsOnLeaveOrTimeout ==
    [][ (pc' = "done" /\ pc # "done") =>
            \/ /\ Validated
               /\ msgBuffer[0] = CMD_LEAVE_PROGMODE_ISP
               /\ nReplies' = nReplies + 1
               /\ Len(tx') = 8
               /\ tx'[6] = CMD_LEAVE_PROGMODE_ISP
               /\ tx'[7] = STATUS_CMD_OK
               /\ rx' = rx
            \/ nTimeouts > 0
      ]_vars

C17_TimeoutLeavesWithoutReply ==
    [][ /\ (pc = "recv" /\ nTimeouts' # nTimeouts)
            => /\ pc' = "dispatch"
               /\ msgBuffer'[0] = CMD_PROGRAMMER_TIMEOUT
               /\ frame' = <<CMD_PROGRAMMER_TIMEOUT>>
               /\ seqNum' = seqNum /\ msgLength' = msgLength /\ checksum' = checksum
        /\ (pc # "recv" /\ pc' # pc /\ frame = <<CMD_PROGRAMMER_TIMEOUT>>)
            => /\ tx' = tx /\ nReplies' = nReplies
               /\ address' = address /\ flash' = flash /\ eeprom' = eeprom
               /\ pc' \in {"send", "done"}
      ]_vars

\* C18: in ST_START a byte from the host other than MESSAGE_START is dropped:
\* the parser stays in ST_START, seqNum, address and isLeave keep their values
\* and nothing is sent; MESSAGE_START moves the parser to ST_GET_SEQ_NUM with
\* checksum = MESSAGE_START.
C18_AwaitStartDiscards ==
    [][ (pc = "recv" /\ msgParseState = "ST_START" /\ rx # <<>> /\ rx' = Tail(rx))
            => IF Head(rx) = MESSAGE_START
               THEN /\ msgParseState' = "ST_GET_SEQ_NUM"
                    /\ checksum' = MESSAGE_START
                    /\ pc' = "recv"
               ELSE /\ msgParseState' = "ST_START"
                    /\ pc' = "recv"
                    /\ seqNum' = seqNum /\ address' = address /\ isLeave' = isLeave
                    /\ tx' = tx /\ nReplies' = nReplies
      ]_vars

\* C19: a validated chip-erase frame changes no flash location, no EEPROM
\* location and not address, and is answered with [command, STATUS_CMD_OK];
\* flash changes only in steps of a program-flash command.
C19_ChipEraseIsNoOp ==
    [][ /\ (pc = "dispatch" /\ Validated /\ msgBuffer[0] = CMD_CHIP_ERASE_ISP)
            => /\ flash' = flash /\ eeprom' = eeprom /\ pageBuf' = pageBuf
               /\ address' = address
               /\ pc' = "send"
               /\ msgLength' = 2
               /\ msgBuffer'[0] = CMD_CHIP_ERASE_ISP
               /\ msgBuffer'[1] = STATUS_CMD_OK
        /\ (pc = "send" /\ Validated /\ msgBuffer[0] = CMD_CHIP_ERASE_ISP)
            => /\ flash' = flash /\ eeprom' = eeprom /\ address' = address
               /\ Len(tx') = 8
               /\ tx'[6] = CMD_CHIP_ERASE_ISP
               /\ tx'[7] = STATUS_CMD_OK
        /\ flash' # flash
            => (msgBuffer[0] = CMD_PROGRAM_FLASH_ISP /\ pc \in {"dispatch", "prog_flash"})
      ]_vars

C19_Witness ==
    /\ pc = "send"
    /\ Validated
    /\ msgBuffer[0] = CMD_CHIP_ERASE_ISP
    /\ flash # <<>>
    /\ address # 0

\* the last dispatched command is a program-flash that passed the boundary test
ProgramPassed ==
    /\ cmdLog # <<>>
    /\ Last(cmdLog).cmd = CMD_PROGRAM_FLASH_ISP
    /\ Last(cmdLog).addr < APP_END

\* first address of the page address was in when that command started
ProgramPage == (Last(cmdLog).addr \div SPM_PAGESIZE) * SPM_PAGESIZE

\* the SPM operations of that command so far: one erase of its page, then
\* fills only, and when the command is done one write of the same page last
SpmOrder ==
    ProgramPassed =>
        /\ spmLog # <<>>
        /\ spmLog[1] = <<"erase", ProgramPage>>
        /\ \A k \in 2..Len(spmLog) :
              \/ spmLog[k][1] = "fill"
              \/ k = Len(spmLog) /\ k >= 3 /\ pc # "prog_flash"
                   /\ spmLog[k] = <<"write", ProgramPage>>
        /\ pc # "prog_flash" => Last(spmLog) = <<"write", ProgramPage>>

SignOnExampleReply ==
    <<MESSAGE_START, 1, 0, 11, TOKEN, STATUS_CMD_OK, 8, 65, 86, 82, 73, 83, 80, 95, 50>>

\* the sign-on frame with sequence number 1 whose header declares the one
\* payload byte it has
SignOnFrame == HostFrame(1, SignOnPayload)

\* its reply: the command byte comes back first, then status, count, string
SignOnReply ==
    LET head == <<MESSAGE_START, 1, 0, 11, TOKEN, CMD_SIGN_ON, STATUS_CMD_OK, 8,
                  65, 86, 82, 73, 83, 80, 95, 50>>
    IN Append(head, XorSeq(head))

\* C21 as stated: once the seven bytes 1B 01 00 02 0E 01 <checksum> are
\* taken, the frame is accepted, and the reply sent for it begins
\* 1B 01 00 0B 0E 00 08 "AVRISP_2".
C21_SignOnExample ==
    /\ [](frame = SignOnExample => msgParseState = "ST_PROCESS")
    /\ [][(pc = "send" /\ frame = SignOnExample)
            => SubSeq(tx', 1, Len(SignOnExampleReply)) = SignOnExampleReply]_vars

\* C21 amended: once the seven bytes 1B 01 00 01 0E 01 <checksum> (declared
\* length 1) are taken, the frame is accepted, and the reply sent for it is
\* 1B 01 00 0B 0E 01 00 08 "AVRISP_2" <checksum>: declared length 11,
\* payload = command, status-OK, the count 8 and the string.
C21_SignOnFrame ==
    /\ [](frame = SignOnFrame => msgParseState = "ST_PROCESS")
    /\ [][(pc = "send" /\ frame = SignOnFrame) => tx' = SignOnReply]_vars

\* the reply to the sign-on frame has been sent
C21_Witness ==
    /\ tx = SignOnReply
    /\ pc = "recv"
    /\ cmdLog # <<>>
    /\ Last(cmdLog).cmd = CMD_SIGN_ON

(***************************************************************************)
(* C22.  The loops of the program and read commands.                       *)
(***************************************************************************)
LoopStates == {"prog_flash", "prog_eeprom", "read_flash", "read_eeprom"}

\* passes a loop counting down by one has to go at most: a counter of 0 at
\* the first test of do { } while(size) stands for 65536
PassesLeft(sz) == IF sz = 0 THEN WordMod ELSE sz

\* C22: every loop of a program or read command finishes, whatever the size
\* operand, odd sizes for flash included: each pass of a loop either ends
\* the loop or leaves the size counter nearer to 0 than it was.
C22_LoopsFinish ==
    [][(pc \in LoopStates /\ size' # size)
        => (pc' = "send" \/ PassesLeft(size') < PassesLeft(size))]_vars

(***************************************************************************)
(* C23.  The number of payload bytes the parser takes.                     *)
(***************************************************************************)
\* the length the header of the frame under way declares
DeclaredLength == frame[3] * 256 + frame[4]

\* payload bytes taken so far of the frame under way
PayloadTaken == Len(frame) - 5

\* C23: the parser takes exactly as many payload bytes as the header
\* declares: the byte that follows the token and that many payload bytes is
\* compared as the checksum, so that the frame is accepted or dropped; with
\* a declared length of 0 this is the byte right after the token.
C23_ExactlyDeclaredPayload ==
    [][(RecvStep /\ Len(frame) >= 5 /\ PayloadTaken = DeclaredLength)
        => msgParseState' \in {"ST_PROCESS", "ST_START"}]_vars

(***************************************************************************)
(* C24.  The index of the payload store.                                   *)
(***************************************************************************)
\* C24: whatever bytes arrive, every payload byte is stored at an index
\* inside the 285 bytes of msgBuffer.
C24_PayloadStoreInBuffer ==
    [][(RecvStep /\ msgParseState = "ST_GET_DATA") => i < MsgBufferSize]_vars

(***************************************************************************)
(* C25.  Requests and replies alternate.                                   *)
(***************************************************************************)
\* this step takes a byte from the UART
TakesByte == rx # <<>> /\ rx' = Tail(rx)

\* this step sends a reply
SendsReply == nReplies' = nReplies + 1

\* C25: requests and replies alternate.  There are never more replies than
\* frames that reached ST_PROCESS; a reply is sent only for the frame just
\* dispatched, and once only; no byte is taken from the UART between the
\* end of a frame and the end of its reply; after a reply the receive loop
\* starts the next frame in ST_START.
C25_RequestsAndRepliesAlternate ==
    /\ [](nReplies <= nReady)
    /\ [](pc \in {"dispatch", "send"} => nReplies < nReady)
    /\ [][SendsReply => (pc = "send" /\ pc' # "send" /\ Len(tx') = msgLength + 6)]_vars
    /\ [][TakesByte => (pc = "recv" /\ nReplies' = nReplies)]_vars
    /\ [][(SendsReply /\ pc' = "recv") => msgParseState' = "ST_START"]_vars

\* the second reply is about to be sent while bytes of the next frame wait
C25_Witness ==
    /\ pc = "send"
    /\ nReplies = 1
    /\ nReady = 2
    /\ rx # <<>>

(***************************************************************************)
(* C26.  Program flash.                                                    *)
(***************************************************************************)
\* the page buffer word that flash address a selects
PageBufWord(a) == pageBuf[(a % SPM_PAGESIZE) - (a % 2)]

\* words filled so far by the program-flash command under way
WordsFilled == (address - Last(cmdLog).addr) \div 2

\* C26: a program-flash command of size n that passed the test against
\* APP_END takes its data from payload index 10 on, low byte first, fills
\* the words at the even addresses from the address it started at, ends
\* with the address advanced by n and answers [command, STATUS_CMD_OK].
C26_ProgramFlash ==
    /\ [](pc = "prog_flash" =>
            LET e == Last(cmdLog) IN
            /\ address <= e.addr + e.arg
            /\ \A k \in 0..(WordsFilled - 1) :
                  /\ spmLog[k + 2] = <<"fill", e.addr + 2 * k>>
                  /\ PageBufWord(e.addr + 2 * k) = DataWord(e.data[2 * k + 1], e.data[2 * k + 2]))
    /\ [][(pc = "prog_flash" /\ pc' = "send") =>
            LET e == Last(cmdLog) IN
            /\ address' = e.addr + e.arg
            /\ msgLength' = 2
            /\ msgBuffer'[0] = CMD_PROGRAM_FLASH_ISP
            /\ msgBuffer'[1] = STATUS_CMD_OK]_vars

(***************************************************************************)
(* C27.  EEPROM round trip.                                                *)
(***************************************************************************)
\* the last three commands were: program EEPROM, load the address the
\* programming started at, read EEPROM with the same size
EepromRoundTrip ==
    /\ Len(cmdLog) >= 3
    /\ LET rd == Last(cmdLog)
           ld == cmdLog[Len(cmdLog) - 1]
           pg == cmdLog[Len(cmdLog) - 2]
       IN /\ pg.cmd = CMD_PROGRAM_EEPROM_ISP
          /\ ld.cmd = CMD_LOAD_ADDRESS
          /\ rd.cmd = CMD_READ_EEPROM_ISP
          /\ rd.addr = pg.addr
          /\ rd.arg = pg.arg

\* C27: program-EEPROM of n bytes at address A writes byte k to A + k and
\* leaves the address at A + n; a read-EEPROM of size n after the address
\* was put back to A answers STATUS_CMD_OK, those n bytes, STATUS_CMD_OK and
\* leaves the address at A + n.
C27_EepromRoundTrip ==
    /\ [](pc = "prog_eeprom" =>
            LET e == Last(cmdLog) IN
            /\ address <= e.addr + e.arg
            /\ \A k \in 0..(address - e.addr - 1) :
                  EepromByte(eeprom, (e.addr + k) % EEPROM_SIZE) = e.data[k + 1])
    /\ [][(pc = "prog_eeprom" /\ pc' = "send") =>
            address' = Last(cmdLog).addr + Last(cmdLog).arg]_vars
    /\ [][(pc = "read_eeprom" /\ pc' = "send" /\ EepromRoundTrip) =>
            LET n == Last(cmdLog).arg
                written == cmdLog[Len(cmdLog) - 2].data
            IN /\ msgLength = n + 3
               /\ msgBuffer'[1] = STATUS_CMD_OK
               /\ \A k \in 1..n : msgBuffer'[1 + k] = written[k]
               /\ msgBuffer'[n + 2] = STATUS_CMD_OK
               /\ address' = Last(cmdLog).addr + n]_vars

(***************************************************************************)
(* C28.  Read signature.                                                   *)
(***************************************************************************)
\* the bytes of the device signature 1E 96 09
SignatureHigh == 30
SignatureMiddle == 150
SignatureLow == 9

\* the frame just dispatched carries command cmd and at least n payload bytes
Dispatched(cmd, n) ==
    /\ pc = "send"
    /\ Validated
    /\ frame[6] = cmd
    /\ DeclaredLength >= n

\* payload byte k (from 0) of the frame just dispatched
PayloadByte(k) == frame[6 + k]

\* the reply to the frame just dispatched that carries payload pl
ReplyWith(pl) == ReplyFrame(frame[2], Len(pl), pl)

\* C28: the reply to a read-signature frame carries [command, STATUS_CMD_OK,
\* signature byte, STATUS_CMD_OK]; the byte is the high, middle or low byte
\* of the signature for the index 0, 1 or 2 at payload index 4, and the low
\* byte for every other index.
C28_ReadSignature ==
    [][Dispatched(CMD_READ_SIGNATURE_ISP, 5) =>
        LET k == PayloadByte(4)
            byte == IF k = 0 THEN SignatureHigh
                    ELSE IF k = 1 THEN SignatureMiddle
                    ELSE SignatureLow
        IN tx' = ReplyWith(<<CMD_READ_SIGNATURE_ISP, STATUS_CMD_OK, byte, STATUS_CMD_OK>>)]_vars

\* the answer to index 255 is the low byte
C28_Witness ==
    /\ Dispatched(CMD_READ_SIGNATURE_ISP, 5)
    /\ PayloadByte(4) = 255
    /\ msgBuffer[2] = SignatureLow
    /\ msgLength = 4

(***************************************************************************)
(* C29.  Multi-SPI.                                                        *)
(***************************************************************************)
\* C29: the reply to a multi-SPI frame carries the seven bytes [command,
\* STATUS_CMD_OK, 0, payload byte 4, payload byte 5, answer, STATUS_CMD_OK];
\* the answer is the signature byte payload byte 6 selects if payload byte 4
\* is 0x30, and 0 otherwise; address, flash and EEPROM stay as they are.
C29_SpiMulti ==
    /\ [][Dispatched(CMD_SPI_MULTI, 7) =>
            LET k == PayloadByte(6)
                byte == IF k = 0 THEN SignatureHigh
                        ELSE IF k = 1 THEN SignatureMiddle
                        ELSE SignatureLow
                answer == IF PayloadByte(4) = 48 THEN byte ELSE 0
            IN tx' = ReplyWith(<<CMD_SPI_MULTI, STATUS_CMD_OK, 0, PayloadByte(4),
                                 PayloadByte(5), answer, STATUS_CMD_OK>>)]_vars
    /\ [][(pc = "dispatch" /\ pc' # pc /\ msgBuffer[0] = CMD_SPI_MULTI) =>
            (pc' = "send" /\ UNCHANGED <<address, flash, pageBuf, eeprom>>)]_vars
    /\ [][(pc = "send" /\ msgBuffer[0] = CMD_SPI_MULTI) =>
            UNCHANGED <<address, flash, pageBuf, eeprom>>]_vars

\* an instruction other than 0x30 was answered with 0, at an address other
\* than 0
C29_Witness ==
    /\ Dispatched(CMD_SPI_MULTI, 7)
    /\ PayloadByte(4) = 32
    /\ PayloadByte(5) = 77
    /\ msgBuffer[3] = 32
    /\ msgBuffer[4] = 77
    /\ msgBuffer[5] = 0
    /\ address = 32

(***************************************************************************)
(* C30.  What the commands change.                                         *)
(***************************************************************************)
\* the commands that only answer
QueryCommands ==
    {CMD_SIGN_ON, CMD_GET_PARAMETER, CMD_SET_PARAMETER, CMD_ENTER_PROGMODE_ISP,
     CMD_READ_SIGNATURE_ISP, CMD_READ_LOCK_ISP, CMD_READ_FUSE_ISP, CMD_SPI_MULTI}

\* the commands that move the address
AddressCommands ==
    {CMD_LOAD_ADDRESS, CMD_PROGRAM_FLASH_ISP, CMD_PROGRAM_EEPROM_ISP,
     CMD_READ_FLASH_ISP, CMD_READ_EEPROM_ISP}

\* the switch or one of its loops is at work
InSwitch == pc \in {"dispatch"} \cup LoopStates

\* C30: sign-on, get-parameter, set-parameter, enter-program-mode,
\* read-signature, read-lock, read-fuse and multi-SPI change neither the
\* address nor flash nor the EEPROM nor isLeave; the address changes only in
\* load-address and in the program and read commands; isLeave changes only
\* in leave-program-mode and on the timeout value.
C30_CommandEffects ==
    /\ [][(pc = "dispatch" /\ pc' # pc /\ msgBuffer[0] \in QueryCommands) =>
            (pc' = "send" /\ UNCHANGED <<address, flash, eeprom, isLeave>>)]_vars
    /\ [][address' # address => (InSwitch /\ msgBuffer[0] \in AddressCommands)]_vars
    /\ [][isLeave' # isLeave =>
            (pc = "dispatch"
             /\ msgBuffer[0] \in {CMD_LEAVE_PROGMODE_ISP, CMD_PROGRAMMER_TIMEOUT})]_vars

\* read-fuse was dispatched after the address had been loaded, and changed
\* nothing
C30_Witness ==
    /\ Dispatched(CMD_READ_FUSE_ISP, 4)
    /\ Len(cmdLog) = 2
    /\ cmdLog[1].cmd = CMD_LOAD_ADDRESS
    /\ address = 32
    /\ isLeave = 0

(***************************************************************************)
(* C31.  When seqNum changes.                                              *)
(***************************************************************************)
\* C31: seqNum changes only in the step that sends a reply; a frame whose
\* sequence byte was accepted and that is then dropped for its token or its
\* checksum leaves seqNum at the value it had before the frame.
C31_SeqNumChangesOnlyOnReply ==
    /\ [][seqNum' # seqNum => SendsReply]_vars
    /\ [][(RecvStep /\ msgParseState \in {"ST_GET_TOKEN", "ST_GET_CHECK"}
                    /\ msgParseState' = "ST_START")
            => seqNum' = prevSeq]_vars

(***************************************************************************)
(* C32.  Leaving without a reply.                                          *)
(***************************************************************************)
\* C32: isLeave is 2 only if a receive wait has expired: no byte the host
\* sends while the parser is in ST_START and no validated frame, whatever its
\* command code, makes the bootloader leave without a reply.
C32_LeaveWithoutReplyOnlyOnTimeout ==
    isLeave = 2 => nTimeouts > 0

(***************************************************************************)
(* C33.  What the answer depends on.                                       *)
(***************************************************************************)
\* msgBuffer with the payload bytes the frame in hand declares, and g in
\* every byte behind them
DeclaredOnly(g) ==
    [k \in 0..(MsgBufferSize - 1) |-> IF k < DeclaredLength THEN frame[6 + k] ELSE g]

\* two outcomes of the switch give the same reply and the same state
SameAnswer(A, B) ==
    /\ A.msgLength = B.msgLength
    /\ \A k \in 0..(A.msgLength - 1) : A.buf[k] = B.buf[k]
    /\ A.address = B.address
    /\ A.isLeave = B.isLeave

\* the commands whose switch case goes on in a loop over the size operand
SizedCommands == LoopCommands \cup {CMD_PROGRAM_FLASH_ISP}

\* C33: the answer to a validated frame depends only on the payload bytes
\* the frame declares, on the address and on the memories: with any other
\* bytes left in msgBuffer behind the payload the switch gives the same
\* reply, address and isLeave, and the same size operand.
C33_AnswerFromDeclaredBytesOnly ==
    (pc = "dispatch" /\ Validated /\ DeclaredLength <= MsgBufferSize) =>
        \A g \in StackFill :
            LET other == DeclaredOnly(g) IN
            IF msgBuffer[0] \in SizedCommands
            THEN SizeOperand(other[1], other[2]) = SizeOperand(msgBuffer[1], msgBuffer[2])
            ELSE SameAnswer(Handle(Locals), Handle([Locals EXCEPT !.buf = other]))

(***************************************************************************)
(* C34.  The indexes the switch and the answer use.                        *)
(***************************************************************************)
\* C34: whatever size operand a validated frame carries, the program loops
\* read and the read loops write only inside the 285 bytes of msgBuffer, and
\* the answer that is sent is not longer than msgBuffer.
C34_SwitchAndAnswerInBuffer ==
    /\ (pc \in {"prog_flash", "read_flash"} => p + 1 < MsgBufferSize)
    /\ (pc \in {"prog_eeprom", "read_eeprom"} => p < MsgBufferSize)
    /\ ((pc = "send" /\ msgBuffer[0] \in {CMD_READ_FLASH_ISP, CMD_READ_EEPROM_ISP})
            => p <= MsgBufferSize)
    /\ ((pc = "send" /\ Replies(isLeave)) => msgLength <= MsgBufferSize)

(***************************************************************************)
(* USB adapter firmware: flow control and the byte exchange.               *)
(***************************************************************************)
\* usbFunctionWriteOut() has acted in this step
WriteOutStep == nOut' = nOut + 1
\* usbSetInterrupt() has been called in this step
SetInterruptStep == loopAt = "device" /\ ~usbTxPending /\ usbTxPending'
\* one SPI transfer has been made in this step
ShiftStep == loopAt = "shift" /\ spiLog' # spiLog

\* C35: once usbFunctionWriteOut() has stored a packet, requests of the host
\* stay disabled until the main loop finds txptr = 0; a packet is stored only
\* when the one before it has been shifted out completely; rxptr and txptr
\* never pass the sizes of their buffers.
C35_FlowControl ==
    /\ [](rxptr <= HW_CDC_BULK_OUT_SIZE /\ txptr <= HW_CDC_BULK_IN_SIZE)
    /\ [][WriteOutStep => (rxptr = 0 /\ usbDisabled')]_vars
    /\ [][(usbDisabled /\ ~usbDisabled') => (loopAt = "host" /\ txptr = 0)]_vars

\* a packet waits in rx_buf, requests disabled, while the answer to the
\* packet before it still waits in tx_buf
C35_Witness ==
    /\ rxptr > 0 /\ txptr > 0
    /\ usbDisabled
    /\ loopAt = "poll"

\* the first three parts of C36: bytes leave in arrival order, the packet
\* for the host holds the bytes clocked in, in order, and is as long as the
\* packet received
ExchangeInOrder ==
    /\ [][ShiftStep => spiLog'.mosi = SubSeq(outLast, 1, Len(spiLog'.mosi))]_vars
    /\ [][(loopAt = "shift" /\ loopAt' = "device") => spiLog'.mosi = outLast]_vars
    /\ [][SetInterruptStep =>
            IF txptr = 0 THEN inLast' = <<>>
            ELSE /\ inLast' = spiLog.miso
                 /\ Len(inLast') = Len(spiLog.mosi)]_vars

\* C36 as stated: the exchange is in order, and the packet after a packet
\* of exactly HW_CDC_BULK_IN_SIZE bytes is empty.
C36_EmptyPacketAfterFull ==
    /\ ExchangeInOrder
    /\ [](inPrev = HW_CDC_BULK_IN_SIZE => inLast = <<>>)

\* C36 as amended: the exchange is in order, and after a packet of exactly
\* HW_CDC_BULK_IN_SIZE bytes sendEmptyFrame stays set, so that the next time
\* the endpoint is free a packet goes out even when no bytes wait: the bytes
\* received meanwhile, or none.
C36_PacketAfterFull ==
    /\ ExchangeInOrder
    /\ [](Len(inLast) = HW_CDC_BULK_IN_SIZE => sendEmptyFrame # 0)
    /\ [][(loopAt = "device" /\ loopAt' = "poll" /\ usbInterruptIsReady
               /\ Len(inLast) = HW_CDC_BULK_IN_SIZE)
            => (SetInterruptStep /\ Len(inLast') = txptr)]_vars

\* an empty packet has followed a packet of HW_CDC_BULK_IN_SIZE bytes clocked in
C36_Witness ==
    /\ inPrev = HW_CDC_BULK_IN_SIZE
    /\ inLast = <<>>
    /\ Len(spiLog.miso) = HW_CDC_BULK_IN_SIZE

(***************************************************************************)
(* MCP2200 forwarder: the read chain, close_interface() and the ways      *)
(* device_added() gives up.                                                *)
(***************************************************************************)
ArmedReads == {r \in asyncReads : r.st = "armed"}
NoGlobalSet ==
    /\ gReadBuffer = 0 /\ gWriteBuffer = 0
    /\ gUsbBulkInterface = 0 /\ gUsbInterruptInterface = 0
\* read_completion() has run in this step
CompletionStep == lastCompletion' # lastCompletion

\* C37: a successful completion writes the bytes to the PTY and arms exactly
\* one new read, so that at most one read is armed at any time; an error
\* result or a failed re-arm closes the interfaces and leaves no read armed.
C37_ReadChain ==
    /\ [](Cardinality(ArmedReads) <= 1)
    /\ [][CompletionStep =>
            /\ lastCompletion'.how \in {"rearmed", "closed"}
            /\ (lastCompletion'.result = "error" => lastCompletion'.how = "closed")
            /\ (lastCompletion'.how = "rearmed" =>
                    /\ ptyLog' = ptyLog + 1
                    /\ Cardinality(ArmedReads') = 1
                    /\ \A r \in ArmedReads' : r.n = lastCompletion'.n + 1 \/ r.n = nRead')
            /\ (lastCompletion'.how = "closed" =>
                    /\ NoGlobalSet'
                    /\ ArmedReads' = {})]_vars

\* C38: close_interface() leaves the four globals NULL and does nothing when
\* called again; in no order of the callbacks does one of them use an
\* interface that has been released.
C38_NoUseAfterClose ==
    /\ LET C == close_interface(Globals)
       IN /\ C.rbuf = 0 /\ C.wbuf = 0 /\ C.bulk = 0 /\ C.intr = 0
          /\ close_interface(C) = C
    /\ ~usedReleased

\* C39: when device_added() has given up on a device, none of the four
\* globals is set for that device and no read is armed on its interfaces.
C39_GiveUpLeavesNothing ==
    [][(gaveUp' # gaveUp /\ gaveUp'.why # "ok") =>
          /\ IfaceDevice(gUsbBulkInterface') # gaveUp'.dev
          /\ IfaceDevice(gUsbInterruptInterface') # gaveUp'.dev
          /\ IfaceDevice(gReadBuffer') # gaveUp'.dev
          /\ IfaceDevice(gWriteBuffer') # gaveUp'.dev
          /\ \A r \in ArmedReads' : IfaceDevice(r.iface) # gaveUp'.dev]_vars

====
